---- MODULE Spec2Model ----
(***************************************************************************)
(* State-machine model of chat-in-a-nutshell: the command line entry point *)
(* (chat_provider.py: parse_arguments, async_main, interactive_mode, main) *)
(* driving the Chatbot core (chat/chat.py).                                *)
(*                                                                         *)
(* Python values: an optional value (None or v) is the sequence <<>> or    *)
(* <<v>>; a dict is a function whose DOMAIN is the set of keys present;    *)
(* temperatures are kept in tenths.                                        *)
(***************************************************************************)
EXTENDS Integers, Sequences, FiniteSets, TLC

\* ------------------------------------------------------------------ bounds
MaxFlags == 2              \* flags on one command line
MaxToolFlags == 2          \* occurrences of --use-tools / --no-tools
MaxLines == 1              \* input lines consumed by one interactive session
MaxMsgLen == 2             \* length of a message list handed to validate_inputs
MaxCalls == 2              \* tool calls requested by one provider response
MaxServers == 2            \* active tool servers of one MCPClient
MaxSetterCalls == 1        \* setter calls of one process after its construction

\* ------------------------------------------------------- program constants
SIGTERM == 15
EX_OK == 0
EXIT_ERROR == 1
ERROR_MARKER == "There was an error. Please try again."

None == <<>>
Some(v) == <<v>>

\* Python truthiness of an optional string / optional integer
TruthyStr(o) == o # None /\ o[1] # ""
TruthyInt(o) == o # None /\ o[1] # 0

\* ------------------------------------------------------------ dict helpers
Get(d, k, default) == IF k \in DOMAIN d THEN d[k] ELSE default
Put(d, k, v) == [x \in (DOMAIN d) \cup {k} |-> IF x = k THEN v ELSE d[x]]
EmptyDict == [x \in {} |-> 0]

\* ------------------------------------------------------------ command line
\* An argument vector: the value given to each option (None when the option
\* is absent), the tool flags in the order they were typed, and whether the
\* vector is well formed ("ok"), has an unknown option ("usage") or asks for
\* help ("help").
ArgvAll ==
    [ kind : {"ok"},
      messages : {None, <<"m1">>, <<"m1", "m2">>},
      conversation : BOOLEAN,
      system : {None, Some(""), Some("sys")},
      model : {None, Some("gpt-4")},
      reasoning_effort : {None, Some("high")},
      provider : {None, Some("anthropic")},
      max_tokens : {None, Some(0), Some(2048)},
      temperature : {None, Some(0), Some(7)},
      toolFlags : UNION {[1..n -> {"--use-tools", "--no-tools"}] : n \in 0..MaxToolFlags},
      available_models : BOOLEAN,
      available_models_gpt : BOOLEAN,
      available_tools : BOOLEAN ]

B2N(b) == IF b THEN 1 ELSE 0

NumFlags(a) ==
    B2N(a.messages # None) + B2N(a.conversation) + B2N(a.system # None)
    + B2N(a.model # None) + B2N(a.reasoning_effort # None) + B2N(a.provider # None)
    + B2N(a.max_tokens # None) + B2N(a.temperature # None) + Len(a.toolFlags)
    + B2N(a.available_models) + B2N(a.available_models_gpt) + B2N(a.available_tools)

NoFlags ==
    [ kind |-> "ok", messages |-> None, conversation |-> FALSE, system |-> None,
      model |-> None, reasoning_effort |-> None, provider |-> None,
      max_tokens |-> None, temperature |-> None, toolFlags |-> <<>>,
      available_models |-> FALSE, available_models_gpt |-> FALSE,
      available_tools |-> FALSE ]

ArgvSet ==
    {a \in ArgvAll : NumFlags(a) <= MaxFlags}
    \cup {[NoFlags EXCEPT !.kind = "usage"], [NoFlags EXCEPT !.kind = "help"]}

\* argparse actions store_true / store_false on the shared dest use_tools,
\* applied in command-line order on top of set_defaults(use_tools=None).
RECURSIVE store_use_tools(_, _)
store_use_tools(flags, cur) ==
    IF flags = <<>> THEN cur
    ELSE store_use_tools(Tail(flags),
                         IF Head(flags) = "--use-tools" THEN Some(TRUE) ELSE Some(FALSE))

\* The namespace parse_arguments returns for a well-formed argument vector.
parse_args(a) ==
    [ messages |-> a.messages, conversation |-> a.conversation, system |-> a.system,
      model |-> a.model, reasoning_effort |-> a.reasoning_effort,
      provider |-> a.provider, max_tokens |-> a.max_tokens,
      temperature |-> a.temperature,
      use_tools |-> store_use_tools(a.toolFlags, None),
      available_models |-> a.available_models,
      available_models_gpt |-> a.available_models_gpt,
      available_tools |-> a.available_tools ]

\* ----------------------------------------------------- configuration record
\* Read accessors of the Chatbot: the stored value or the default.
system_message(cfg) == Get(cfg, "system_message", "You are a skilled Python programmer who writes tersely.")
model(cfg) == Get(cfg, "model", "gpt-3.5-turbo")
temperature(cfg) == Get(cfg, "temperature", 0)
reasoning_effort(cfg) == Get(cfg, "reasoning_effort", "low")
max_tokens(cfg) == Get(cfg, "max_tokens", 4096)
user_messages(cfg) == Get(cfg, "user_messages", <<"">>)
use_tools(cfg) == Get(cfg, "use_tools", FALSE)
provider(cfg) == Get(cfg, "provider", "openai")

\* The Python type of the value stored under a key of the record.
FieldKind(k) ==
    CASE k = "user_messages" -> "list"
      [] k = "max_tokens" -> "int"
      [] k = "temperature" -> "float"
      [] k = "use_tools" -> "bool"
      [] OTHER -> "str"

\* json.dump of one value: a string, a number (an int is written without a
\* fraction, a float with one), true / false, or an array of strings.
json_encode(kind, v) ==
    CASE kind = "str" -> [t |-> "string", v |-> v]
      [] kind = "int" -> [t |-> "number", v |-> v, frac |-> FALSE]
      [] kind = "float" -> [t |-> "number", v |-> v, frac |-> TRUE]
      [] kind = "bool" -> [t |-> IF v THEN "true" ELSE "false"]
      [] kind = "list" -> [t |-> "array",
                           v |-> [i \in 1..Len(v) |-> [t |-> "string", v |-> v[i]]]]

\* json.load of one value.
json_decode(j) ==
    CASE j.t \in {"string", "number"} -> j.v
      [] j.t = "true" -> TRUE
      [] j.t = "false" -> FALSE
      [] j.t = "array" -> [i \in 1..Len(j.v) |-> j.v[i].v]

\* json.dump / json.load of a whole record: one member per key.
json_dump(cfg) == [k \in DOMAIN cfg |-> json_encode(FieldKind(k), cfg[k])]
json_load(text) == [k \in DOMAIN text |-> json_decode(text[k])]

\* save_config that leaves the history out of what it writes.
save_config_partial(cfg) ==
    [status |-> "ok",
     data |-> json_load(json_dump([k \in DOMAIN cfg \ {"user_messages"} |-> cfg[k]]))]

\* save_config: the file is opened for writing and the whole record is dumped
\* into it.  A file is kept as its state (absent, empty, malformed or ok) and,
\* when ok, the JSON object its text denotes.
save_config(cfg) == [status |-> "ok", data |-> json_load(json_dump(cfg))]

\* append_user_message: append to the stored list (created empty if absent).
append_user_message(cfg, msg) ==
    Put(cfg, "user_messages",
        Append(IF "user_messages" \in DOMAIN cfg THEN cfg["user_messages"] ELSE <<>>, msg))

\* The files a run can start from.
FileSet ==
    { [status |-> "absent", data |-> EmptyDict],
      [status |-> "malformed", data |-> EmptyDict],
      [status |-> "ok", data |-> EmptyDict],
      [status |-> "ok", data |-> [user_messages |-> <<"h1", "h2">>]],
      [status |-> "ok", data |-> [user_messages |-> <<"h1", "h2">>, use_tools |-> TRUE]],
      [status |-> "ok", data |-> [use_tools |-> TRUE]],
      [status |-> "ok", data |-> [provider |-> "mistral"]],
      [status |-> "ok", data |-> [theme |-> "dark", provider |-> "anthropic"]] }

\* load_config that keeps only the keys the program knows.
load_config_known(f) ==
    IF f.status = "absent" THEN EmptyDict
    ELSE [k \in DOMAIN f.data \cap {"system_message", "model", "temperature",
                                    "reasoning_effort", "max_tokens", "provider",
                                    "user_messages", "use_tools"} |-> f.data[k]]

\* load_config: the parsed file, or {} when the file does not exist (a file
\* that does not parse makes json.load raise, see initialize_chatbot).
load_config(f) == IF f.status = "absent" THEN EmptyDict ELSE f.data

\* ------------------------------------------------------------------- state
VARIABLES
    pc,          \* position of the run inside main / async_main
    argv,        \* the command line of this run
    args,        \* namespace returned by parse_arguments
    handlers,    \* TRUE once setup_signal_handlers has installed the handlers
    chatbot,     \* TRUE once the local variable chatbot of async_main is bound
    config,      \* Chatbot.config, the in-memory configuration record
    file,        \* the persisted configuration file
    file0,       \* the persisted configuration file when the run started
    tools,       \* Chatbot.tools
    mcp_client,  \* Chatbot.mcp_client: "none", "active" or "cleaned"
    exc,         \* exception propagating out of async_main ("none" if none)
    raised,      \* exception with which the body of async_main ended
    exit_code,   \* argument of sys.exit in main (-1 while running)
    trace,       \* the steps of async_main executed so far, in order
    turn,        \* the chat turn in progress or just finished
    lines,       \* input lines read by interactive_mode
    signalled,   \* the signal whose handler ran ("none" if none)
    vin,         \* arguments of a direct call of validate_inputs
    vout,        \* how that call ended ("pending" before it)
    input,       \* the last line interactive_mode read ("none" before the first)
    proc,        \* the processes sharing one configuration path
    mcp_call,    \* a direct call of MCPClient.call_tool: arguments and outcome
    mcp,         \* an MCPClient object driven by direct connect / cleanup / call_tool calls
    req          \* a direct call of a provider adapter: arguments and outcome

vars == <<pc, argv, args, handlers, chatbot, config, file, file0, tools, mcp_client,
          exc, raised, exit_code, trace, turn, lines, signalled, vin, vout, input, proc, mcp_call,
          mcp, req>>

\* Python values as validate_inputs sees them: the type of the value and, for
\* an iterable, the types of the items iteration yields.
PyTypes == {"str", "int", "NoneType"}
PyStr == [t |-> "str", items |-> <<>>]
PyList(xs) == [t |-> "list", items |-> [i \in 1..Len(xs) |-> "str"]]
NoCall == [system |-> PyStr, user_assistant |-> PyList(<<>>),
           max_tokens |-> [t |-> "int", v |-> 4096]]

\* No second process, and no direct call of MCPClient.call_tool, in a run.
NoProcs == <<>>
NoMcpCall == [active_servers |-> <<>>, tool_name |-> "none", confirm_callback |-> "None",
              session |-> "ok", asked |-> FALSE, invoked |-> 0, result |-> None]

\* No MCPClient object driven directly, and no direct adapter call, in a run.
NoMcp == [active_servers |-> <<>>, tools_cache |-> <<>>, exit_stack |-> 0,
          calls |-> 0, last |-> [op |-> "none"]]
NoReq == [op |-> "none"]

\* A chat turn: who called, the requests sent, the last finish reason, how the
\* turn ended, and for a tool-requesting response the ids of the requested
\* calls, the console answer, the calls invoked, and the tool results put
\* into the follow-up request (None when no follow-up request was built).
NoTurn == [caller |-> "none", depth |-> 0, requests |-> 0, lastFinish |-> "none",
           result |-> "none", error |-> "none", content |-> "none",
           calls |-> <<>>, answer |-> "none", invoked |-> <<>>, followup |-> None]

Init ==
    /\ pc = "setup_signal_handlers"
    /\ argv \in ArgvSet
    /\ args = parse_args(NoFlags)
    /\ handlers = FALSE
    /\ chatbot = FALSE
    /\ config = EmptyDict
    /\ file \in FileSet
    /\ file0 = file
    /\ tools = <<>>
    /\ mcp_client = "none"
    /\ exc = "none"
    /\ raised = "none"
    /\ exit_code = -1
    /\ trace = <<>>
    /\ turn = NoTurn
    /\ lines = 0
    /\ signalled = "none"
    /\ vin = NoCall
    /\ vout = "pending"
    /\ input = "none"
    /\ proc = NoProcs
    /\ mcp_call = NoMcpCall
    /\ mcp = NoMcp
    /\ req = NoReq

\* An exception leaves the try body of async_main: control goes to finally.
Raise(e) == pc' = "finally" /\ exc' = e /\ raised' = e

\* A return statement inside the try body: control goes to finally.
Return == pc' = "finally" /\ UNCHANGED <<exc, raised>>

Did(step) == \E i \in 1..Len(trace) : trace[i] = step

\* ------------------------------------------------------------- async_main
setup_signal_handlers ==
    /\ pc = "setup_signal_handlers"
    /\ handlers' = TRUE
    /\ pc' = "parse_arguments"
    /\ UNCHANGED <<argv, file0, args, chatbot, config, file, tools, mcp_client, exc,
                   raised, exit_code, trace, turn, lines, signalled, vin, vout, input, proc, mcp_call, mcp, req>>

\* parser.error raises ValueError; -h prints the help and raises SystemExit.
parse_arguments ==
    /\ pc = "parse_arguments"
    /\ CASE argv.kind = "ok" ->
              /\ args' = parse_args(argv)
              /\ pc' = "initialize_chatbot"
              /\ UNCHANGED <<exc, raised>>
         [] argv.kind = "usage" -> Raise("ValueError") /\ UNCHANGED args
         [] argv.kind = "help" -> Raise("SystemExit") /\ UNCHANGED args
    /\ UNCHANGED <<argv, file0, handlers, chatbot, config, file, tools, mcp_client,
                   exit_code, trace, turn, lines, signalled, vin, vout, input, proc, mcp_call, mcp, req>>

\* Chatbot construction: load the file (json.load raises JSONDecodeError on
\* text that does not parse, and only FileNotFoundError is handled), store and
\* persist the provider (override, else the stored value, else the default),
\* then create_client: an unknown provider or a missing API key reaches
\* sys.exit(1) in a module that does not import sys, which is a NameError.
initialize_chatbot ==
    /\ pc = "initialize_chatbot"
    /\ IF file.status = "malformed"
       THEN /\ Raise("JSONDecodeError")
            /\ UNCHANGED <<chatbot, config, file>>
       ELSE LET loaded == load_config(file)
                cfg == Put(loaded, "provider",
                           IF TruthyStr(args.provider) THEN args.provider[1]
                           ELSE provider(loaded))
            IN /\ config' = cfg
               /\ file' = save_config(cfg)
               /\ IF provider(cfg) \notin {"openai", "anthropic"}
                  THEN /\ Raise("NameError")
                       /\ UNCHANGED chatbot
                  ELSE \E api_key \in BOOLEAN :
                          IF api_key
                          THEN /\ chatbot' = TRUE
                               /\ pc' = "update_chatbot_config"
                               /\ UNCHANGED <<exc, raised>>
                          ELSE /\ Raise("NameError")
                               /\ UNCHANGED chatbot
    /\ UNCHANGED <<argv, file0, args, handlers, tools, mcp_client, exit_code, trace,
                   turn, lines, signalled, vin, vout, input, proc, mcp_call, mcp, req>>

\* The record after the setters update_chatbot_config calls for namespace a.
apply_overrides(cfg, a) ==
    LET c1 == IF TruthyStr(a.provider) THEN Put(cfg, "provider", a.provider[1]) ELSE cfg
        c2 == IF TruthyStr(a.system) THEN Put(c1, "system_message", a.system[1]) ELSE c1
        c3 == IF TruthyStr(a.model) THEN Put(c2, "model", a.model[1]) ELSE c2
        c4 == IF TruthyStr(a.reasoning_effort)
              THEN Put(c3, "reasoning_effort", a.reasoning_effort[1]) ELSE c3
        c5 == IF TruthyInt(a.max_tokens) THEN Put(c4, "max_tokens", a.max_tokens[1]) ELSE c4
        c6 == IF a.temperature # None THEN Put(c5, "temperature", a.temperature[1]) ELSE c5
        c7 == IF a.use_tools # None THEN Put(c6, "use_tools", a.use_tools[1]) ELSE c6
    IN c7

\* TRUE iff update_chatbot_config calls at least one setter.
calls_setter(a) ==
    \/ TruthyStr(a.provider) \/ TruthyStr(a.system) \/ TruthyStr(a.model)
    \/ TruthyStr(a.reasoning_effort) \/ TruthyInt(a.max_tokens)
    \/ a.temperature # None \/ a.use_tools # None

update_chatbot_config ==
    /\ pc = "update_chatbot_config"
    /\ config' = apply_overrides(config, args)
    /\ file' = IF calls_setter(args) THEN save_config(config') ELSE file
    /\ trace' = Append(trace, "update_chatbot_config")
    /\ pc' = "list_models"
    /\ UNCHANGED <<argv, file0, args, handlers, chatbot, tools, mcp_client, exc, raised,
                   exit_code, turn, lines, signalled, vin, vout, input, proc, mcp_call, mcp, req>>

list_models ==
    /\ pc = "list_models"
    /\ IF args.available_models \/ args.available_models_gpt
       THEN \E ok \in BOOLEAN :
               IF ok
               THEN /\ trace' = Append(trace, "print_model_list")
                    /\ Return
               ELSE /\ trace' = trace
                    /\ Raise("ProviderError")
       ELSE /\ pc' = "initialize_tools"
            /\ UNCHANGED <<exc, raised, trace>>
    /\ UNCHANGED <<argv, file0, args, handlers, chatbot, config, file, tools, mcp_client,
                   exit_code, turn, lines, signalled, vin, vout, input, proc, mcp_call, mcp, req>>


\* Chatbot.initialize_tools, by the way it can end: without a configuration
\* path no client is built and the tool list stays empty; otherwise a client
\* is built, the servers are connected and the tool list is refreshed from
\* the client; an unexpected failure surfaces as ToolLoadError, before or
\* after the client has been built.
InitToolsOutcomes ==
    {"no_config_path", "connected", "connected_no_tools", "failed_early", "failed_late"}

chatbot_initialize_tools(outcome) ==
    [ mcp_client |-> IF outcome \in {"connected", "connected_no_tools", "failed_late"}
                     THEN "active" ELSE "none",
      tools |-> IF outcome = "connected" THEN <<"tool_a">> ELSE <<>>,
      error |-> IF outcome \in {"failed_early", "failed_late"}
                THEN "ToolLoadError" ELSE "none" ]

\* initialize_tools that asks the Chatbot for its tools whatever use_tools is.
initialize_tools_unconditional ==
    /\ pc = "initialize_tools"
    /\ \E outcome \in InitToolsOutcomes :
          LET r == chatbot_initialize_tools(outcome)
          IN /\ mcp_client' = r.mcp_client
             /\ tools' = IF r.error # "none" THEN <<>> ELSE r.tools
             /\ trace' = Append(trace, "Chatbot.initialize_tools")
    /\ pc' = "list_available_tools"
    /\ UNCHANGED <<argv, file0, args, handlers, chatbot, config, file, exc, raised,
                   exit_code, turn, lines, signalled, vin, vout, input, proc, mcp_call, mcp, req>>

\* initialize_tools of chat_provider.py: only with use_tools enabled is the
\* Chatbot asked to initialize its tools, and a failure there is logged and
\* swallowed; in every other case the tool list is forced empty.
initialize_tools ==
    /\ pc = "initialize_tools"
    /\ IF use_tools(config)
       THEN \E outcome \in InitToolsOutcomes :
               LET r == chatbot_initialize_tools(outcome)
               IN /\ mcp_client' = r.mcp_client
                  /\ tools' = IF r.error # "none" THEN <<>> ELSE r.tools
                  /\ trace' = Append(trace, "Chatbot.initialize_tools")
       ELSE /\ tools' = <<>>
            /\ UNCHANGED <<mcp_client, trace>>
    /\ pc' = "list_available_tools"
    /\ UNCHANGED <<argv, file0, args, handlers, chatbot, config, file, exc, raised,
                   exit_code, turn, lines, signalled, vin, vout, input, proc, mcp_call, mcp, req>>

list_available_tools ==
    /\ pc = "list_available_tools"
    /\ IF args.available_tools
       THEN /\ trace' = Append(trace, IF tools = <<>> THEN "print_no_tools"
                                      ELSE "print_tool_list")
            /\ Return
       ELSE /\ pc' = "enter_interactive_mode"
            /\ UNCHANGED <<exc, raised, trace>>
    /\ UNCHANGED <<argv, file0, args, handlers, chatbot, config, file, tools, mcp_client,
                   exit_code, turn, lines, signalled, vin, vout, input, proc, mcp_call, mcp, req>>

\* The any([...]) test of enter_interactive_mode.
operational(a) ==
    \/ a.messages # None \/ a.conversation \/ TruthyStr(a.model)
    \/ TruthyStr(a.system) \/ a.temperature # None \/ a.use_tools # None
    \/ TruthyStr(a.reasoning_effort) \/ TruthyStr(a.provider)
    \/ TruthyInt(a.max_tokens)

\* fresh_session that keeps the history it finds.
fresh_session_kept(cfg) == cfg

\* interactive_mode before its loop: the history is cleared for a fresh start.
fresh_session(cfg) == Put(cfg, "user_messages", <<>>)

\* enter_interactive_mode, with the prelude of interactive_mode: banner,
\* settings, then the history is cleared and the read loop starts.
enter_interactive_mode ==
    /\ pc = "enter_interactive_mode"
    /\ IF ~operational(args)
       THEN /\ config' = fresh_session(config)
            /\ file' = save_config(config')
            /\ trace' = Append(trace, "interactive_mode")
            /\ pc' = "interactive_mode"
       ELSE /\ pc' = "start_new_conversation"
            /\ UNCHANGED <<config, file, trace>>
    /\ UNCHANGED <<argv, file0, args, handlers, chatbot, tools, mcp_client, exc, raised,
                   exit_code, turn, lines, signalled, vin, vout, input, proc, mcp_call, mcp, req>>

RECURSIVE append_all(_, _)
append_all(cfg, msgs) ==
    IF msgs = <<>> THEN cfg
    ELSE append_all(append_user_message(cfg, Head(msgs)), Tail(msgs))

start_new_conversation ==
    /\ pc = "start_new_conversation"
    /\ IF args.conversation
       THEN IF args.messages # None
            THEN /\ config' = append_all(config, args.messages)
                 /\ file' = save_config(config')
                 /\ pc' = "update_settings"
                 /\ UNCHANGED <<exc, raised, trace>>
            ELSE /\ config' = Put(config, "user_messages", <<>>)
                 /\ file' = save_config(config')
                 /\ trace' = Append(trace, "print_new_conversation")
                 /\ Return
       ELSE /\ pc' = "update_settings"
            /\ UNCHANGED <<config, file, exc, raised, trace>>
    /\ UNCHANGED <<argv, file0, args, handlers, chatbot, tools, mcp_client, exit_code,
                   turn, lines, signalled, vin, vout, input, proc, mcp_call, mcp, req>>

\* The any([...]) test of update_settings.
settings_flag(a) ==
    \/ TruthyStr(a.model) \/ TruthyStr(a.system) \/ a.temperature # None
    \/ a.use_tools # None \/ TruthyStr(a.reasoning_effort)
    \/ TruthyStr(a.provider) \/ TruthyInt(a.max_tokens)

update_settings ==
    /\ pc = "update_settings"
    /\ IF settings_flag(args) /\ args.messages = None
       THEN /\ trace' = Append(trace, "print_settings_updated")
            /\ Return
       ELSE /\ pc' = "process_chat_request"
            /\ UNCHANGED <<exc, raised, trace>>
    /\ UNCHANGED <<argv, file0, args, handlers, chatbot, config, file, tools, mcp_client,
                   exit_code, turn, lines, signalled, vin, vout, input, proc, mcp_call, mcp, req>>

\* process_chat_request appending the supplied messages to the stored history.
process_chat_request_appends ==
    /\ pc = "process_chat_request"
    /\ IF args.messages # None /\ ~args.conversation
       THEN /\ config' = append_all(config, args.messages)
            /\ file' = save_config(config')
       ELSE UNCHANGED <<config, file>>
    /\ trace' = Append(trace, "process_chat_request")
    /\ turn' = [NoTurn EXCEPT !.caller = "chat"]
    /\ pc' = "chat_with_provider"
    /\ UNCHANGED <<argv, file0, args, handlers, chatbot, tools, mcp_client, exc, raised,
                   exit_code, lines, signalled, vin, vout, input, proc, mcp_call, mcp, req>>

\* process_chat_request up to the call of chatbot.chat: a one-shot run
\* replaces the history by the supplied messages.
process_chat_request ==
    /\ pc = "process_chat_request"
    /\ IF args.messages # None /\ ~args.conversation
       THEN /\ config' = Put(config, "user_messages", args.messages)
            /\ file' = save_config(config')
       ELSE UNCHANGED <<config, file>>
    /\ trace' = Append(trace, "process_chat_request")
    /\ turn' = [NoTurn EXCEPT !.caller = "chat"]
    /\ pc' = "chat_with_provider"
    /\ UNCHANGED <<argv, file0, args, handlers, chatbot, tools, mcp_client, exc, raised,
                   exit_code, lines, signalled, vin, vout, input, proc, mcp_call, mcp, req>>


\* ------------------------------------------------------- the chat turn
\* validate_inputs(system, user_assistant): ValueError unless system is a str
\* and every item that iterating user_assistant yields is a str; iterating a
\* value that is neither a list nor a str raises TypeError.
validate_inputs(system, user_assistant) ==
    IF system.t # "str" THEN "ValueError"
    ELSE IF user_assistant.t \notin {"list", "str"} THEN "TypeError"
    ELSE IF \A i \in 1..Len(user_assistant.items) : user_assistant.items[i] = "str"
         THEN "ok"
         ELSE "ValueError"

\* What the provider can answer to one request: a transport or API error, or
\* a response with a finish reason.
Responses == {"error", "stop", "length", "tool_calls"}

\* message.content of a response: a tool-requesting response carries none.
content_of(resp) == IF resp = "tool_calls" THEN "None" ELSE "r1"

Returned(t, resp) ==
    [t EXCEPT !.result = "returned", !.content = content_of(resp),
              !.lastFinish = resp, !.requests = @ + 1]

Failed(t, e) == [t EXCEPT !.result = "raised", !.error = e]

\* chat_with_provider up to the first response: validation, the request, and
\* the handling of the response (handle_openai_response /
\* handle_anthropic_response); every failure after validation leaves through
\* handle_api_exception as ChatCompletionError.
chat_with_provider ==
    /\ pc = "chat_with_provider"
    /\ LET v == validate_inputs(PyStr, PyList(user_messages(config)))
       IN IF v # "ok"
          THEN /\ turn' = Failed(turn, v)
               /\ pc' = "turn_done"
          ELSE \E resp \in Responses :
                  CASE resp = "error" ->
                         /\ turn' = Failed([turn EXCEPT !.requests = @ + 1],
                                           "ChatCompletionError")
                         /\ pc' = "turn_done"
                    [] resp = "stop" ->
                         /\ turn' = Returned(turn, resp)
                         /\ pc' = "turn_done"
                    [] resp = "length" ->
                         /\ turn' = Failed([turn EXCEPT !.requests = @ + 1,
                                                        !.lastFinish = resp],
                                           "ChatCompletionError")
                         /\ pc' = "turn_done"
                    [] resp = "tool_calls" ->
                         IF provider(config) = "anthropic"
                         THEN /\ turn' = Failed([turn EXCEPT !.requests = @ + 1,
                                                             !.lastFinish = resp],
                                                "ChatCompletionError")
                              /\ pc' = "turn_done"
                         ELSE \E n \in 1..MaxCalls :
                                 /\ turn' = [turn EXCEPT !.requests = @ + 1,
                                                         !.lastFinish = resp,
                                                         !.calls = [i \in 1..n |-> i]]
                                 /\ pc' = "handle_tool_call"
    /\ UNCHANGED <<argv, file0, args, handlers, chatbot, config, file, tools, mcp_client,
                   exc, raised, exit_code, trace, lines, signalled, vin, vout, input, proc, mcp_call, mcp, req>>

\* What the user can type at the confirmation prompt; "EOF" stands for
\* EOFError from input().
Answers == {"y", "Y", "yes", "n", "EOF"}

\* input(...).strip().lower()
strip_lower(answer) == IF answer = "Y" THEN "y" ELSE answer

\* confirm_tool_execution: only the answer y confirms.
confirm_tool_execution(answer) == strip_lower(answer) = "y"

\* handle_tool_call: tool_calls[0], the first requested call, is confirmed on
\* the console; refused, abort_tool_execution stores the request and a
\* refusal in the history; confirmed, execute_tool runs it and
\* complete_tool_execution stores the request and the result; an exception
\* of input() or of the tool ends the turn through handle_api_exception.
\* Otherwise one follow-up request is sent, carrying one tool message for that
\* first call, and the content of its response is the result of the turn,
\* whatever its finish reason.
handle_tool_call ==
    /\ pc = "handle_tool_call"
    /\ \E answer \in Answers, executed \in BOOLEAN, resp \in Responses :
          LET tool_call == turn.calls[1]
              confirm == confirm_tool_execution(answer)
              t1 == [turn EXCEPT !.answer = answer]
          IN IF answer = "EOF"
             THEN /\ turn' = Failed(t1, "ChatCompletionError")
                  /\ UNCHANGED <<config, file>>
             ELSE IF confirm /\ ~executed
             THEN /\ turn' = Failed([t1 EXCEPT !.invoked = <<tool_call>>],
                                    "ChatCompletionError")
                  /\ UNCHANGED <<config, file>>
             ELSE LET t2 == [t1 EXCEPT
                               !.invoked = IF confirm THEN <<tool_call>> ELSE <<>>,
                               !.followup =
                                   Some(<<[tool_call_id |-> tool_call,
                                           content |-> IF confirm THEN "result"
                                                       ELSE "not successful"]>>),
                               !.depth = @ + 1]
                  IN /\ config' = append_user_message(
                                     append_user_message(config, "<assistant tool call>"),
                                     IF confirm THEN "<tool result>" ELSE "<tool refused>")
                     /\ file' = save_config(config')
                     /\ turn' = IF resp = "error"
                                THEN Failed([t2 EXCEPT !.requests = @ + 1],
                                            "ChatCompletionError")
                                ELSE Returned(t2, resp)
    /\ pc' = "turn_done"
    /\ UNCHANGED <<argv, file0, args, handlers, chatbot, tools, mcp_client, exc, raised,
                   exit_code, trace, lines, signalled, vin, vout, input, proc, mcp_call, mcp, req>>

\* Chatbot.chat hands the outcome of chat_with_provider to its caller.
chat(t) == [result |-> t.result, error |-> t.error, content |-> t.content]

\* on_chat_error with the two modes exchanged.
on_chat_error_swapped(cfg, conversation) ==
    IF conversation THEN Put(cfg, "user_messages", <<>>)
    ELSE append_user_message(cfg, ERROR_MARKER)

\* The except clause of process_chat_request: what it leaves in the record.
on_chat_error(cfg, conversation) ==
    IF conversation THEN append_user_message(cfg, ERROR_MARKER)
    ELSE Put(cfg, "user_messages", <<>>)

\* process_chat_request after chatbot.chat, and the end of async_main's body:
\* a returned content is appended in conversation mode; an exception stores
\* the marker (conversation mode) or clears the history, and is re-raised.
chat_request_done ==
    /\ pc = "turn_done"
    /\ turn.caller = "chat"
    /\ LET r == chat(turn)
       IN IF r.result = "returned"
          THEN /\ IF args.conversation
                  THEN /\ config' = append_user_message(config, r.content)
                       /\ file' = save_config(config')
                  ELSE UNCHANGED <<config, file>>
               /\ trace' = Append(trace, "chat_returned")
               /\ Return
          ELSE /\ config' = on_chat_error(config, args.conversation)
               /\ file' = save_config(config')
               /\ trace' = Append(trace, "chat_raised")
               /\ Raise(r.error)
    /\ UNCHANGED <<argv, file0, args, handlers, chatbot, tools, mcp_client, exit_code,
                   turn, lines, signalled, vin, vout, input, proc, mcp_call, mcp, req>>


\* ------------------------------------------------------ interactive mode
\* The lines input() can deliver; "EOF" stands for end of input.
InputLines ==
    {"", "/exit", "/Q", "exit", "quit", "/help", "/settings", "/tools", "/bogus",
     "/clear", "/model gpt-4", "/model", "/temperature 0.5", "/temperature -1",
     "/temperature abc", "/effort high", "/effort bogus", "/tokens 100",
     "/tokens -5", "/tokens abc", "hello", "EOF"}

\* EndsSession that also breaks the loop on an unknown command.
EndsSession_unknown_command(line) ==
    line \in {"/exit", "/Q", "exit", "quit", "EOF", "/bogus"}

\* The lines on which the loop breaks: a command exit / quit / q (the command
\* word is lower-cased), a plain exit / quit / q, and EOFError from input().
EndsSession(line) == line \in {"/exit", "/Q", "exit", "quit", "EOF"}

\* Lines that only print: help, settings, the tool list, the unknown-command
\* notice, and the values float() or int() reject (ValueError caught in place).
OnlyPrints(line) ==
    line \in {"", "/help", "/settings", "/tools", "/bogus", "/temperature abc",
              "/tokens abc"}

\* The setter a command line calls: <<key, value>>; float() and int() accept
\* a sign, and the setters store what they are given.
SetterOf(line) ==
    CASE line = "/clear" -> <<"user_messages", <<>>>>
      [] line = "/model gpt-4" -> <<"model", "gpt-4">>
      [] line = "/temperature 0.5" -> <<"temperature", 5>>
      [] line = "/temperature -1" -> <<"temperature", -10>>
      [] line = "/effort high" -> <<"reasoning_effort", "high">>
      [] line = "/effort bogus" -> <<"reasoning_effort", "bogus">>
      [] line = "/tokens 100" -> <<"max_tokens", 100>>
      [] line = "/tokens -5" -> <<"max_tokens", -5>>

\* One pass of the read loop of interactive_mode, up to the provider call of
\* a chat message.  A bare /model prints the model listing, whose failure is
\* caught by the loop: the marker is stored and the loop goes on.
interactive_mode ==
    /\ pc = "interactive_mode"
    /\ \E line \in InputLines, listing_ok \in BOOLEAN :
          /\ lines < MaxLines \/ EndsSession(line)
          /\ input' = line
          /\ CASE EndsSession(line) ->
                    /\ pc' = "finally"
                    /\ UNCHANGED <<config, file, turn, lines>>
               [] OnlyPrints(line) ->
                    /\ lines' = lines + 1
                    /\ UNCHANGED <<pc, config, file, turn>>
               [] line = "/model" ->
                    /\ IF listing_ok
                       THEN UNCHANGED <<config, file>>
                       ELSE /\ config' = append_user_message(config, ERROR_MARKER)
                            /\ file' = save_config(config')
                    /\ lines' = lines + 1
                    /\ UNCHANGED <<pc, turn>>
               [] line = "hello" ->
                    /\ config' = append_user_message(config, line)
                    /\ file' = save_config(config')
                    /\ lines' = lines + 1
                    /\ turn' = [NoTurn EXCEPT !.caller = "interactive"]
                    /\ pc' = "chat_with_provider"
               [] OTHER ->
                    /\ config' = Put(config, SetterOf(line)[1], SetterOf(line)[2])
                    /\ file' = save_config(config')
                    /\ lines' = lines + 1
                    /\ UNCHANGED <<pc, turn>>
    /\ UNCHANGED <<argv, file0, args, handlers, chatbot, tools, mcp_client, exc, raised,
                   exit_code, trace, signalled, vin, vout, proc, mcp_call, mcp, req>>

\* The rest of the pass once chat_with_provider is back: the response is
\* stored; an exception is logged, the marker is stored, the loop goes on
\* (the turn is over: nothing of it is kept but the history).
interactive_turn_done ==
    /\ pc = "turn_done"
    /\ turn.caller = "interactive"
    /\ config' = append_user_message(config, IF turn.result = "returned"
                                             THEN turn.content ELSE ERROR_MARKER)
    /\ file' = save_config(config')
    /\ turn' = NoTurn
    /\ pc' = "interactive_mode"
    /\ UNCHANGED <<argv, file0, args, handlers, chatbot, tools, mcp_client, exc, raised,
                   exit_code, trace, lines, signalled, vin, vout, input, proc, mcp_call, mcp, req>>

\* ------------------------------------------------------------- signals
\* Positions inside the try body of async_main at which a handler can run.
InBody ==
    pc \in {"parse_arguments", "initialize_chatbot", "update_chatbot_config",
            "list_models", "initialize_tools", "list_available_tools",
            "enter_interactive_mode", "start_new_conversation", "update_settings",
            "process_chat_request", "chat_with_provider", "handle_tool_call",
            "turn_done", "interactive_mode"}

sigint_handler ==
    /\ handlers /\ InBody
    /\ signalled' = "SIGINT"
    /\ Raise("KeyboardInterrupt")
    /\ UNCHANGED <<argv, file0, args, handlers, chatbot, config, file, tools, mcp_client,
                   exit_code, trace, turn, lines, vin, vout, input, proc, mcp_call, mcp, req>>

sigterm_handler ==
    /\ handlers /\ InBody
    /\ signalled' = "SIGTERM"
    /\ Raise("SystemExit")
    /\ UNCHANGED <<argv, file0, args, handlers, chatbot, config, file, tools, mcp_client,
                   exit_code, trace, turn, lines, vin, vout, input, proc, mcp_call, mcp, req>>

\* ------------------------------------------------- finally, and main
\* The finally clause of async_main reads the local variable chatbot: unbound,
\* the read raises UnboundLocalError, which replaces whatever was propagating;
\* bound, a constructed client is cleaned up (cleanup swallows its failures).
async_main_finally ==
    /\ pc = "finally"
    /\ IF ~chatbot
       THEN /\ exc' = "UnboundLocalError"
            /\ UNCHANGED mcp_client
       ELSE /\ mcp_client' = IF mcp_client = "active" THEN "cleaned" ELSE mcp_client
            /\ UNCHANGED exc
    /\ pc' = "main"
    /\ UNCHANGED <<argv, file0, args, handlers, chatbot, config, file, tools, raised,
                   exit_code, trace, turn, lines, signalled, vin, vout, input, proc, mcp_call, mcp, req>>

\* The exit code main selects for what asyncio.run(async_main()) did.
exit_code_for(e) ==
    CASE e \in {"none", "KeyboardInterrupt"} -> EX_OK
      [] e = "SystemExit" -> 128 + SIGTERM
      [] OTHER -> EXIT_ERROR

main ==
    /\ pc = "main"
    /\ exit_code' = exit_code_for(exc)
    /\ pc' = "exited"
    /\ UNCHANGED <<argv, file0, args, handlers, chatbot, config, file, tools, mcp_client,
                   exc, raised, trace, turn, lines, signalled, vin, vout, input, proc, mcp_call, mcp, req>>

Next ==
    \/ setup_signal_handlers
    \/ parse_arguments
    \/ initialize_chatbot
    \/ update_chatbot_config
    \/ list_models
    \/ initialize_tools
    \/ list_available_tools
    \/ enter_interactive_mode
    \/ start_new_conversation
    \/ update_settings
    \/ process_chat_request
    \/ chat_with_provider
    \/ handle_tool_call
    \/ chat_request_done
    \/ interactive_mode
    \/ interactive_turn_done
    \/ sigint_handler
    \/ sigterm_handler
    \/ async_main_finally
    \/ main

Spec == Init /\ [][Next]_vars


\* ------------------------------------- validate_inputs called on its own
MaxTokensValues ==
    {[t |-> "int", v |-> n] : n \in {-1, 0, 1, 4096}}
    \cup {[t |-> "str", v |-> 0], [t |-> "NoneType", v |-> 0]}

ValidateCalls ==
    [ system : {[t |-> ty, items |-> <<>>] : ty \in PyTypes},
      user_assistant :
          {[t |-> "list", items |-> xs] :
              xs \in UNION {[1..n -> PyTypes] : n \in 0..MaxMsgLen}}
          \cup {[t |-> "str", items |-> [i \in 1..n |-> "str"]] : n \in 0..MaxMsgLen}
          \cup {[t |-> "NoneType", items |-> <<>>], [t |-> "int", items |-> <<>>]},
      max_tokens : MaxTokensValues ]

InitValidate ==
    /\ pc = "validate_inputs"
    /\ argv = NoFlags
    /\ args = parse_args(NoFlags)
    /\ handlers = FALSE
    /\ chatbot = FALSE
    /\ config = EmptyDict
    /\ file = [status |-> "absent", data |-> EmptyDict]
    /\ file0 = file
    /\ tools = <<>>
    /\ mcp_client = "none"
    /\ exc = "none"
    /\ raised = "none"
    /\ exit_code = -1
    /\ trace = <<>>
    /\ turn = NoTurn
    /\ lines = 0
    /\ signalled = "none"
    /\ vin \in ValidateCalls
    /\ vout = "pending"
    /\ input = "none"
    /\ proc = NoProcs
    /\ mcp_call = NoMcpCall
    /\ mcp = NoMcp
    /\ req = NoReq

\* The call the Chatbot makes: validate_inputs(system, user_assistant); the
\* token limit is not among its parameters.
validate_inputs_call ==
    /\ pc = "validate_inputs"
    /\ vout = "pending"
    /\ vout' = validate_inputs(vin.system, vin.user_assistant)
    /\ UNCHANGED <<pc, argv, args, handlers, chatbot, config, file, file0, tools,
                   mcp_client, exc, raised, exit_code, trace, turn, lines,
                   signalled, vin, input, proc, mcp_call, mcp, req>>

NextValidate == validate_inputs_call

SpecValidate == InitValidate /\ [][NextValidate]_vars


\* --------------------------- two processes sharing one configuration path
\* Length of the text json.dump(config, f, indent=4) writes.
RECURSIVE NumLen(_)
NumLen(n) == IF n < 0 THEN 1 + NumLen(-n) ELSE IF n < 10 THEN 1 ELSE 1 + NumLen(n \div 10)

RECURSIVE SumOver(_, _)
SumOver(S, f) ==
    IF S = {} THEN 0
    ELSE LET x == CHOOSE y \in S : TRUE IN f[x] + SumOver(S \ {x}, f)

json_text_len(j) ==
    CASE j.t = "string" -> Len(j.v) + 2
      [] j.t = "number" -> IF j.frac THEN NumLen(j.v \div 10) + 2 ELSE NumLen(j.v)
      [] j.t = "true" -> 4
      [] j.t = "false" -> 5
      [] j.t = "array" ->
            IF Len(j.v) = 0 THEN 2
            ELSE 2 + SumOver(DOMAIN j.v, [i \in DOMAIN j.v |-> 8 + Len(j.v[i].v) + 2])
                 + 2 * (Len(j.v) - 1) + 6

text_len(cfg) ==
    LET text == json_dump(cfg)
    IN IF DOMAIN text = {} THEN 2
       ELSE 2 + SumOver(DOMAIN text,
                        [k \in DOMAIN text |-> 4 + Len(k) + 2 + 2 + json_text_len(text[k])])
            + 2 * (Cardinality(DOMAIN text) - 1) + 2

Procs == {1, 2}

\* The setter calls a process makes after its construction: <<key, value>>.
SharedOps ==
    { <<"model", "gpt-4">>, <<"system_message", "s">>, <<"user_messages", <<>>>>,
      <<"user_messages", <<"m1">>>> }

\* The complete files the processes can find when they start.
SharedFiles ==
    {[status |-> f.status, data |-> f.data, size |-> text_len(f.data)] :
        f \in {g \in FileSet : g.status = "ok" /\ provider(g.data) \in {"openai", "anthropic"}}}

\* A process: where it is (start, loaded, ready, writing, halted), its
\* in-memory record, what its load_config found (none, whole, or the state of
\* the file json.load could not parse), the setter calls it has made, and the
\* rank of its last completed write among all completed writes.
NewProc == [pc |-> "start", config |-> EmptyDict, seen |-> "none", calls |-> 0, wrote |-> 0]

InitShared ==
    /\ pc = "shared"
    /\ argv = NoFlags
    /\ args = parse_args(NoFlags)
    /\ handlers = FALSE
    /\ chatbot = FALSE
    /\ config = EmptyDict
    /\ file \in SharedFiles
    /\ file0 = file
    /\ tools = <<>>
    /\ mcp_client = "none"
    /\ exc = "none"
    /\ raised = "none"
    /\ exit_code = -1
    /\ trace = <<>>
    /\ turn = NoTurn
    /\ lines = 0
    /\ signalled = "none"
    /\ vin = NoCall
    /\ vout = "pending"
    /\ input = "none"
    /\ proc = [p \in Procs |-> NewProc]
    /\ mcp_call = NoMcpCall
    /\ mcp = NoMcp
    /\ req = NoReq

SharedFrame ==
    UNCHANGED <<pc, argv, args, handlers, chatbot, config, file0, tools, mcp_client, exc,
                raised, exit_code, trace, turn, lines, signalled, vin, vout, input,
                mcp_call, mcp, req>>

\* load_config of process p: open(path, "r") and json.load; text that does
\* not parse (an empty file included) raises JSONDecodeError, which the
\* constructor does not handle.
shared_load_config(p) ==
    /\ pc = "shared"
    /\ proc[p].pc = "start"
    /\ IF file.status = "ok"
       THEN proc' = [proc EXCEPT ![p].pc = "loaded", ![p].seen = "whole",
                                 ![p].config = load_config(file)]
       ELSE proc' = [proc EXCEPT ![p].pc = "halted", ![p].seen = file.status]
    /\ UNCHANGED file
    /\ SharedFrame

\* A setter of process p up to the open(path, "w") of save_config: the key is
\* stored in memory and the file is truncated.  The first setter call is the
\* provider setter of the constructor.
shared_setter_open(p) ==
    /\ pc = "shared"
    /\ \/ /\ proc[p].pc = "loaded"
          /\ proc' = [proc EXCEPT ![p].pc = "writing",
                                  ![p].config = Put(@, "provider", provider(@))]
       \/ /\ proc[p].pc = "ready"
          /\ proc[p].calls < MaxSetterCalls
          /\ \E op \in SharedOps :
                proc' = [proc EXCEPT ![p].pc = "writing", ![p].calls = @ + 1,
                                     ![p].config = Put(@, op[1], op[2])]
    /\ file' = [status |-> "empty", data |-> EmptyDict, size |-> 0]
    /\ SharedFrame

\* The rest of save_config: json.dump fills the buffer and leaving the with
\* block writes it at offset 0 of this process's own file description.  What
\* another process wrote beyond the end of this text stays in the file.
shared_dump_close(p) ==
    /\ pc = "shared"
    /\ proc[p].pc = "writing"
    /\ LET n == text_len(proc[p].config)
           rank == 1 + SumOver(Procs, [q \in Procs |-> proc[q].wrote])
       IN /\ file' = IF file.size > n
                     THEN [status |-> "malformed", data |-> EmptyDict, size |-> file.size]
                     ELSE [status |-> "ok",
                           data |-> json_load(json_dump(proc[p].config)), size |-> n]
          /\ proc' = [proc EXCEPT ![p].pc = "ready", ![p].wrote = rank]
    /\ SharedFrame

NextShared ==
    \E p \in Procs :
        \/ shared_load_config(p)
        \/ shared_setter_open(p)
        \/ shared_dump_close(p)

SpecShared == InitShared /\ [][NextShared]_vars


\* ------------------------------------ MCPClient.call_tool called on its own
ToolNames == {"tool_a", "tool_b"}

\* active_servers, in insertion order: each server with the tools it advertises.
ActiveServers ==
    UNION {[1..n -> SUBSET ToolNames] : n \in 0..MaxServers}

\* A call: the tool asked for, the confirmation callback (None, or what it
\* does when awaited) and what session.call_tool does when awaited: a result
\* with text content, a result without a content attribute, or an exception.
McpCalls ==
    [ active_servers : ActiveServers,
      tool_name : ToolNames \cup {"tool_x"},
      confirm_callback : {"None", "true", "false", "raises"},
      session : {"content", "no_content", "raises"},
      asked : {FALSE},
      invoked : {0},
      result : {None} ]

\* call_tool without its try / except.
MCPClient_call_tool_unguarded(c) ==
    LET owners == {i \in DOMAIN c.active_servers : c.tool_name \in c.active_servers[i]}
        owner == CHOOSE i \in owners : \A j \in owners : i <= j
        done(asked, invoked, content, status, err) ==
            [c EXCEPT !.asked = asked, !.invoked = invoked,
                      !.result = Some([content |-> content, status |-> status,
                                       raised |-> err])]
    IN IF owners = {}
       THEN done(FALSE, 0, <<"Error: Tool '", c.tool_name, "' not found in any active server">>,
                 "error", "none")
       ELSE IF c.confirm_callback = "raises"
       THEN done(TRUE, 0, <<>>, "none", "callback failed")
       ELSE IF c.confirm_callback = "false"
       THEN done(TRUE, 0, <<"Tool execution cancelled">>, "cancelled", "none")
       ELSE IF c.session = "raises"
       THEN done(c.confirm_callback # "None", owner, <<>>, "none", "invocation failed")
       ELSE done(c.confirm_callback # "None", owner,
                 IF c.session = "content" THEN <<"text">> ELSE <<"str(result)">>,
                 "success", "none")

\* MCPClient.call_tool: the first active server, in order, that advertises the
\* tool owns the call; inside one try block the callback, if there is one, is
\* awaited (a false answer returns the cancelled result), the tool is invoked
\* on the owner's session and its result is turned into text; an Exception
\* raised anywhere in the block returns the error result with its message.
\* No owner: the error result naming the tool.
MCPClient_call_tool(c) ==
    LET owners == {i \in DOMAIN c.active_servers : c.tool_name \in c.active_servers[i]}
        owner == CHOOSE i \in owners : \A j \in owners : i <= j
        done(asked, invoked, content, status) ==
            [c EXCEPT !.asked = asked, !.invoked = invoked,
                      !.result = Some([content |-> content, status |-> status,
                                       raised |-> "none"])]
    IN IF owners = {}
       THEN done(FALSE, 0, <<"Error: Tool '", c.tool_name, "' not found in any active server">>,
                 "error")
       ELSE IF c.confirm_callback = "raises"
       THEN done(TRUE, 0, <<"Error: ", "callback failed">>, "error")
       ELSE IF c.confirm_callback = "false"
       THEN done(TRUE, 0, <<"Tool execution cancelled">>, "cancelled")
       ELSE IF c.session = "raises"
       THEN done(c.confirm_callback # "None", owner, <<"Error: ", "invocation failed">>,
                 "error")
       ELSE done(c.confirm_callback # "None", owner,
                 IF c.session = "content" THEN <<"text">> ELSE <<"str(result)">>,
                 "success")

InitCallTool ==
    /\ pc = "call_tool"
    /\ argv = NoFlags
    /\ args = parse_args(NoFlags)
    /\ handlers = FALSE
    /\ chatbot = FALSE
    /\ config = EmptyDict
    /\ file = [status |-> "absent", data |-> EmptyDict]
    /\ file0 = file
    /\ tools = <<>>
    /\ mcp_client = "active"
    /\ exc = "none"
    /\ raised = "none"
    /\ exit_code = -1
    /\ trace = <<>>
    /\ turn = NoTurn
    /\ lines = 0
    /\ signalled = "none"
    /\ vin = NoCall
    /\ vout = "pending"
    /\ input = "none"
    /\ proc = NoProcs
    /\ mcp_call \in McpCalls
    /\ mcp = NoMcp
    /\ req = NoReq

call_tool_call ==
    /\ pc = "call_tool"
    /\ mcp_call.result = None
    /\ mcp_call' = MCPClient_call_tool(mcp_call)
    /\ UNCHANGED <<pc, argv, args, handlers, chatbot, config, file, file0, tools,
                   mcp_client, exc, raised, exit_code, trace, turn, lines, signalled,
                   vin, vout, input, proc, mcp, req>>

NextCallTool == call_tool_call

SpecCallTool == InitCallTool /\ [][NextCallTool]_vars


\* ------------------------------------------------- MCPClient: connect, cleanup
MaxMcpOps == 4

\* Server names: 1..MaxServers are keys of MCPClient.servers, 0 is not.
ServerIds == 0..MaxServers
Configured == 1..MaxServers

\* What list_tools can answer at one connection.
ToolLists == {<<>>, <<"tool_a">>, <<"tool_a", "tool_b">>}

\* How one connection attempt goes: the server parameters are rejected, the
\* spawn, the handshake or the tool listing raises an Exception, or all of
\* them succeed and the server lists its tools.
ConnectOutcomes ==
    [fails : {"params", "spawn", "initialize", "list_tools"}, tools : {<<>>}]
        \cup [fails : {"none"}, tools : ToolLists]

\* _tools_cache as connect_to_server rebuilds it: the tool lists of the active
\* servers, in the order of the active-server map, one after the other.
RECURSIVE tools_of_active(_)
tools_of_active(active) ==
    IF active = <<>> THEN <<>>
    ELSE active[1].tools \o tools_of_active(Tail(active))

is_active(m, id) == \E i \in DOMAIN m.active_servers : m.active_servers[i].id = id

\* The outcome of one call on the object, recorded with the call before it.
McpDone(m, op, arg, returned, err) ==
    [op |-> op, arg |-> arg, returned |-> returned, raised |-> err,
     prev_op |-> m.last.op,
     prev_arg |-> IF m.last.op = "none" THEN "none" ELSE m.last.arg]

\* connect_to_server storing the server before the handshake.
connect_to_server_early_store(m, id, o) ==
    LET n == [m EXCEPT !.calls = @ + 1]
        stored == Append(m.active_servers, [id |-> id, tools |-> o.tools])
    IN IF is_active(m, id)
       THEN [n EXCEPT !.last = McpDone(m, "connect", id, Some(TRUE), "none")]
       ELSE IF id \notin Configured
       THEN [n EXCEPT !.last = McpDone(m, "connect", id, Some(FALSE), "none")]
       ELSE IF o.fails = "params"
       THEN [n EXCEPT !.last = McpDone(m, "connect", id, None, "ValidationError")]
       ELSE IF o.fails = "spawn"
       THEN [n EXCEPT !.last = McpDone(m, "connect", id, Some(FALSE), "none")]
       ELSE IF o.fails \in {"initialize", "list_tools"}
       THEN [n EXCEPT !.exit_stack = @ + 2,
                      !.active_servers = stored,
                      !.last = McpDone(m, "connect", id, Some(FALSE), "none")]
       ELSE [n EXCEPT !.exit_stack = @ + 2,
                      !.active_servers = stored,
                      !.tools_cache = tools_of_active(stored),
                      !.last = McpDone(m, "connect", id, Some(TRUE), "none")]

\* MCPClient.connect_to_server: True at once for an active server, False for
\* a name that is not configured; the server parameters are built outside the
\* try block; inside it the transport and the session are entered on the exit
\* stack, the session is initialised and its tools are listed, and only then
\* is the server stored and the cache rebuilt from all active servers. An
\* Exception raised inside the block returns False.
connect_to_server(m, id, o) ==
    LET n == [m EXCEPT !.calls = @ + 1]
        stored == Append(m.active_servers, [id |-> id, tools |-> o.tools])
    IN IF is_active(m, id)
       THEN [n EXCEPT !.last = McpDone(m, "connect", id, Some(TRUE), "none")]
       ELSE IF id \notin Configured
       THEN [n EXCEPT !.last = McpDone(m, "connect", id, Some(FALSE), "none")]
       ELSE IF o.fails = "params"
       THEN [n EXCEPT !.last = McpDone(m, "connect", id, None, "ValidationError")]
       ELSE IF o.fails = "spawn"
       THEN [n EXCEPT !.last = McpDone(m, "connect", id, Some(FALSE), "none")]
       ELSE IF o.fails \in {"initialize", "list_tools"}
       THEN [n EXCEPT !.exit_stack = @ + 2,
                      !.last = McpDone(m, "connect", id, Some(FALSE), "none")]
       ELSE [n EXCEPT !.exit_stack = @ + 2,
                      !.active_servers = stored,
                      !.tools_cache = tools_of_active(stored),
                      !.last = McpDone(m, "connect", id, Some(TRUE), "none")]

\* get_tools: a copy of the cache.
get_tools(m) == m.tools_cache

\* cleanup closing the connections before it clears the references, with no
\* try block around it.
cleanup_close_first(m, close) ==
    LET n == [m EXCEPT !.calls = @ + 1, !.exit_stack = 0]
    IN IF close = "raises"
       THEN [n EXCEPT !.last = McpDone(m, "cleanup", close, None, "close failed")]
       ELSE [n EXCEPT !.active_servers = <<>>, !.tools_cache = <<>>,
                      !.last = McpDone(m, "cleanup", close, None, "none")]

\* MCPClient.cleanup: the active-server map and the cache are cleared, then
\* the exit stack is closed; an Exception raised by the closing is logged and
\* the exit stack is replaced by a fresh one.
cleanup(m, close) ==
    [m EXCEPT !.calls = @ + 1,
              !.active_servers = <<>>,
              !.tools_cache = <<>>,
              !.exit_stack = 0,
              !.last = McpDone(m, "cleanup", close, None, "none")]

\* The arguments of a call_tool on the object as it stands.
call_tool_on(m, tool, callback, session) ==
    [active_servers |-> [i \in DOMAIN m.active_servers |->
                            {m.active_servers[i].tools[k] :
                                k \in DOMAIN m.active_servers[i].tools}],
     tool_name |-> tool, confirm_callback |-> callback, session |-> session,
     asked |-> FALSE, invoked |-> 0, result |-> None]

InitMcp ==
    /\ pc = "mcp"
    /\ argv = NoFlags
    /\ args = parse_args(NoFlags)
    /\ handlers = FALSE
    /\ chatbot = FALSE
    /\ config = EmptyDict
    /\ file = [status |-> "absent", data |-> EmptyDict]
    /\ file0 = file
    /\ tools = <<>>
    /\ mcp_client = "active"
    /\ exc = "none"
    /\ raised = "none"
    /\ exit_code = -1
    /\ trace = <<>>
    /\ turn = NoTurn
    /\ lines = 0
    /\ signalled = "none"
    /\ vin = NoCall
    /\ vout = "pending"
    /\ input = "none"
    /\ proc = NoProcs
    /\ mcp_call = NoMcpCall
    /\ mcp = NoMcp
    /\ req = NoReq

McpFrame ==
    UNCHANGED <<pc, argv, args, handlers, chatbot, config, file, file0, tools,
                mcp_client, exc, raised, exit_code, trace, turn, lines, signalled,
                vin, vout, input, proc, mcp_call, req>>

mcp_connect_to_server ==
    /\ pc = "mcp"
    /\ mcp.calls < MaxMcpOps
    /\ \E id \in ServerIds, o \in ConnectOutcomes :
          mcp' = connect_to_server(mcp, id, o)
    /\ McpFrame

\* The closing can only fail when something was entered on the exit stack.
mcp_cleanup ==
    /\ pc = "mcp"
    /\ mcp.calls < MaxMcpOps
    /\ \E close \in {"ok", "raises"} :
          /\ close = "raises" => mcp.exit_stack > 0
          /\ mcp' = cleanup(mcp, close)
    /\ McpFrame

mcp_call_tool ==
    /\ pc = "mcp"
    /\ mcp.calls < MaxMcpOps
    /\ \E tool \in ToolNames \cup {"tool_x"}, session \in {"content", "raises"} :
          mcp' = [mcp EXCEPT !.calls = @ + 1,
                             !.last = McpDone(mcp, "call_tool", tool,
                                 MCPClient_call_tool(
                                     call_tool_on(mcp, tool, "None", session)).result,
                                 "none")]
    /\ McpFrame

NextMcp == mcp_connect_to_server \/ mcp_cleanup \/ mcp_call_tool

SpecMcp == InitMcp /\ [][NextMcp]_vars


\* ------------------------------------------------ provider adapters: messages
\* A conversation entry is a Python str (a sequence of text pieces, empty for
\* the empty string) or a list of content blocks; a block is a dict.
PyText(s) == [t |-> "str", text |-> s]
PyBlocks(bs) == [t |-> "list", items |-> bs]

\* The role the adapters give to the entry at (0-based) index i.
role_by_parity(i) == IF i % 2 = 1 THEN "assistant" ELSE "user"

\* The text pieces of the blocks, one after the other.
RECURSIVE text_of_blocks(_)
text_of_blocks(bs) ==
    IF bs = <<>> THEN <<>>
    ELSE Get(bs[1], "text", <<>>) \o text_of_blocks(Tail(bs))

\* str.lower on the values a reasoning effort is given in.
lower(s) ==
    CASE s = "HIGH" -> "high"
      [] s = "Medium" -> "medium"
      [] OTHER -> s

\* ---------------------------------------------------- OpenAI adapter
is_openai_call(item) ==
    Get(item, "type", "none") = "text" /\ "id" \in DOMAIN item /\ "name" \in DOMAIN item
is_openai_text(item) == Get(item, "type", "none") = "text" /\ ~is_openai_call(item)

\* The messages one user-parity list entry turns into.
RECURSIVE openai_user_items(_)
openai_user_items(items) ==
    IF items = <<>> THEN <<>>
    ELSE (IF "tool_use_id" \in DOMAIN items[1]
          THEN <<[role |-> "tool", tool_call_id |-> items[1]["tool_use_id"],
                  content |-> items[1]["content"]]>>
          ELSE IF Get(items[1], "type", "none") = "text"
          THEN <<[role |-> "user", content |-> Get(items[1], "content", <<>>)]>>
          ELSE <<>>)
         \o openai_user_items(Tail(items))

\* The messages the entry at index i turns into.
openai_message(i, msg) ==
    LET role == role_by_parity(i)
    IN IF role = "assistant" /\ msg.t = "list"
       THEN LET calls == SelectSeq(msg.items, is_openai_call)
                tool_calls == [k \in DOMAIN calls |->
                                 [id |-> calls[k]["id"], type |-> "function",
                                  function |-> [name |-> calls[k]["name"],
                                                arguments |-> <<"json", Get(calls[k], "input", EmptyDict)>>]]]
                assistant_msg == [role |-> "assistant",
                                  content |-> text_of_blocks(SelectSeq(msg.items, is_openai_text))]
            IN <<IF calls # <<>> THEN Put(assistant_msg, "tool_calls", tool_calls)
                 ELSE assistant_msg>>
       ELSE IF role = "user" /\ msg.t = "list"
       THEN openai_user_items(msg.items)
       ELSE <<[role |-> role, content |-> msg.text]>>

RECURSIVE openai_convert(_, _)
openai_convert(user_assistant, i) ==
    IF i >= Len(user_assistant) THEN <<>>
    ELSE openai_message(i, user_assistant[i + 1]) \o openai_convert(user_assistant, i + 1)

\* The message list of a request: the system message when one is given (and
\* not empty), then the converted conversation.
openai_messages(system, user_assistant) ==
    (IF system # None /\ system[1] # <<>>
     THEN <<[role |-> "system", content |-> system[1]]>> ELSE <<>>)
        \o openai_convert(user_assistant, 0)

\* Model names, letter by letter.
ModelNames ==
    { <<"o", "1">>, <<"o", "3", "-", "m">>, <<"o">>, <<"o", "m", "n", "i">>,
      <<"g", "p", "t", "-", "4", "o">>, <<"4", "o", "s", "e", "a", "r", "c", "h">>,
      <<"o", "1", "s", "e", "a", "r", "c", "h">>, <<"g", "o", "1">> }

is_reasoning_model(name) ==
    /\ Len(name) > 0 /\ name[1] = "o"
    /\ Len(name) > 1
    /\ name[2] \in {"0", "1", "2", "3", "4", "5", "6", "7", "8", "9"}

\* Python's sub in model.
contains(name, sub) ==
    \E i \in 0..(Len(name) - Len(sub)) : SubSeq(name, i + 1, i + Len(sub)) = sub

search == <<"s", "e", "a", "r", "c", "h">>

\* request_params forwarding the reasoning effort to every model.
openai_request_params_effort_always(c, messages) ==
    LET base == [model |-> c.model, messages |-> messages,
                 max_completion_tokens |-> c.max_tokens]
        t == IF ~is_reasoning_model(c.model) /\ ~contains(c.model, search)
             THEN Put(base, "temperature", c.temperature) ELSE base
    IN IF TruthyStr(c.reasoning_effort)
       THEN Put(t, "reasoning_effort", lower(c.reasoning_effort[1])) ELSE t

\* request_params as send_request builds them (tools left aside): model,
\* messages and max_completion_tokens always; temperature unless the model is
\* a reasoning model or its name contains 'search'; the lower-cased
\* reasoning effort for a reasoning model, when the caller gave one.
openai_request_params(c, messages) ==
    LET base == [model |-> c.model, messages |-> messages,
                 max_completion_tokens |-> c.max_tokens]
        t == IF ~is_reasoning_model(c.model) /\ ~contains(c.model, search)
             THEN Put(base, "temperature", c.temperature) ELSE base
    IN IF is_reasoning_model(c.model) /\ TruthyStr(c.reasoning_effort)
       THEN Put(t, "reasoning_effort", lower(c.reasoning_effort[1])) ELSE t

\* What the provider answers to one call: a response, or a failure whose
\* text names the rejected role of the first message, or another failure.
SYSTEM_UNSUPPORTED == "'messages[0].role' does not support 'system' with this model"
DEVELOPER_UNSUPPORTED == "'messages[0].role' does not support 'developer' with this model"
OTHER_FAILURE == "rate limit exceeded"
Failures == {SYSTEM_UNSUPPORTED, DEVELOPER_UNSUPPORTED, OTHER_FAILURE}
OpenAIResponses == {"stop_text", "stop_empty", "tool_calls", "content_filter", "no_choices"}

\* The provider rejects a role only in a request whose first message has it.
provider_reply(reply, params) ==
    LET first == IF params["messages"] = <<>> THEN "none"
                 ELSE params["messages"][1]["role"]
    IN IF reply = SYSTEM_UNSUPPORTED /\ first # "system" THEN OTHER_FAILURE
       ELSE IF reply = DEVELOPER_UNSUPPORTED /\ first # "developer" THEN OTHER_FAILURE
       ELSE reply

\* The answers scripted for the calls of one send_request, in order.
ReplyScripts ==
    {<<r>> : r \in OpenAIResponses \cup Failures}
        \cup {<<SYSTEM_UNSUPPORTED, r>> : r \in OpenAIResponses \cup Failures}
        \cup {<<SYSTEM_UNSUPPORTED, DEVELOPER_UNSUPPORTED, r>> :
                 r \in OpenAIResponses \cup Failures}

\* The answer to the k-th call (scripts run out only after the last call).
reply_at(c, k, params) ==
    provider_reply(IF k <= Len(c.replies) THEN c.replies[k] ELSE OTHER_FAILURE, params)

\* Lines 178-223: what send_request makes of a response.
openai_process_response(response) ==
    CASE response = "no_choices" ->
            [raised |-> "ResponseFormatError", text |-> <<"No choices found in OpenAI response.">>]
      [] response = "tool_calls" ->
            [raised |-> "none", text |-> <<>>, tool_info |-> TRUE]
      [] response = "content_filter" ->
            [raised |-> "ResponseFormatError",
             text |-> <<"The OpenAI API returned an unexpected finish reason: ", "content_filter", ".">>]
      [] response = "stop_empty" ->
            [raised |-> "ResponseFormatError",
             text |-> <<"No text content found in the OpenAI response.">>]
      [] OTHER -> [raised |-> "none", text |-> <<"answer">>, tool_info |-> FALSE]

ProviderError(calls, text) ==
    [calls |-> calls, raised |-> "ProviderError", text |-> <<"Request failed: ", text>>]

\* The request of the second retry: the first message becomes a user message
\* whose content is its own followed by a blank line and the content of the
\* second message, which is removed. Without a second message the merge
\* raises IndexError.
merged_request(params) ==
    LET ms == params["messages"]
    IN Put(params, "messages",
            <<Put(Put(ms[1], "role", "user"),
                  "content", ms[1]["content"] \o <<"\n\n">> \o ms[2]["content"])>>
                \o SubSeq(ms, 3, Len(ms)))

\* The request of the first retry; without a first message the assignment
\* raises IndexError.
developer_request(params) ==
    LET ms == params["messages"]
    IN Put(params, "messages", <<Put(ms[1], "role", "developer")>> \o Tail(ms))

\* send_request retrying with the developer role after any failure.
OpenAIProvider_send_request_retry_any(c) ==
    LET p1 == openai_request_params(c, openai_messages(c.system, c.user_assistant))
        r1 == reply_at(c, 1, p1)
        p2 == developer_request(p1)
        r2 == reply_at(c, 2, p2)
        p3 == merged_request(p2)
        r3 == reply_at(c, 3, p3)
    IN IF r1 \notin Failures THEN Put(openai_process_response(r1), "calls", <<p1>>)
       ELSE IF p1["messages"] = <<>> THEN ProviderError(<<p1>>, "list index out of range")
       ELSE IF r2 \notin Failures THEN Put(openai_process_response(r2), "calls", <<p1, p2>>)
       ELSE IF r2 # DEVELOPER_UNSUPPORTED THEN ProviderError(<<p1, p2>>, r2)
       ELSE IF Len(p2["messages"]) < 2 THEN ProviderError(<<p1, p2>>, "list index out of range")
       ELSE IF r3 \notin Failures THEN Put(openai_process_response(r3), "calls", <<p1, p2, p3>>)
       ELSE ProviderError(<<p1, p2, p3>>, r3)

\* OpenAIProvider.send_request, lines 52-223: the request is built and sent;
\* a failure naming the system role is answered by one retry with the first
\* message's role set to 'developer'; a failure of that retry naming the
\* developer role by one retry with the first two messages merged; every
\* other failure, also one met while a retry is prepared, is raised as
\* ProviderError with the failure's text. The response of the call that
\* succeeded is then processed.
OpenAIProvider_send_request(c) ==
    LET p1 == openai_request_params(c, openai_messages(c.system, c.user_assistant))
        r1 == reply_at(c, 1, p1)
        p2 == developer_request(p1)
        r2 == reply_at(c, 2, p2)
        p3 == merged_request(p2)
        r3 == reply_at(c, 3, p3)
    IN IF r1 \notin Failures THEN Put(openai_process_response(r1), "calls", <<p1>>)
       ELSE IF r1 # SYSTEM_UNSUPPORTED THEN ProviderError(<<p1>>, r1)
       ELSE IF p1["messages"] = <<>> THEN ProviderError(<<p1>>, "list index out of range")
       ELSE IF r2 \notin Failures THEN Put(openai_process_response(r2), "calls", <<p1, p2>>)
       ELSE IF r2 # DEVELOPER_UNSUPPORTED THEN ProviderError(<<p1, p2>>, r2)
       ELSE IF Len(p2["messages"]) < 2 THEN ProviderError(<<p1, p2>>, "list index out of range")
       ELSE IF r3 \notin Failures THEN Put(openai_process_response(r3), "calls", <<p1, p2, p3>>)
       ELSE ProviderError(<<p1, p2, p3>>, r3)

\* Conversations handed to an adapter: plain texts.
Conversations ==
    {<<>>, <<PyText(<<"u1">>)>>, <<PyText(<<"u1">>), PyText(<<"a1">>), PyText(<<"u2">>)>>}

\* Direct calls of OpenAIProvider.send_request.
OpenAICalls ==
    [ op : {"openai"},
      system : {None, Some(<<>>), Some(<<"sys">>)},
      user_assistant : Conversations,
      model : ModelNames,
      temperature : {0, 7},
      max_tokens : {1, 4096},
      reasoning_effort : {None, Some(""), Some("low"), Some("HIGH")},
      replies : ReplyScripts,
      out : {None} ]

AdapterInit(calls) ==
    /\ pc = "adapter"
    /\ argv = NoFlags
    /\ args = parse_args(NoFlags)
    /\ handlers = FALSE
    /\ chatbot = FALSE
    /\ config = EmptyDict
    /\ file = [status |-> "absent", data |-> EmptyDict]
    /\ file0 = file
    /\ tools = <<>>
    /\ mcp_client = "none"
    /\ exc = "none"
    /\ raised = "none"
    /\ exit_code = -1
    /\ trace = <<>>
    /\ turn = NoTurn
    /\ lines = 0
    /\ signalled = "none"
    /\ vin = NoCall
    /\ vout = "pending"
    /\ input = "none"
    /\ proc = NoProcs
    /\ mcp_call = NoMcpCall
    /\ mcp = NoMcp
    /\ req \in calls

AdapterFrame ==
    UNCHANGED <<pc, argv, args, handlers, chatbot, config, file, file0, tools,
                mcp_client, exc, raised, exit_code, trace, turn, lines, signalled,
                vin, vout, input, proc, mcp_call, mcp>>

InitOpenAI == AdapterInit(OpenAICalls)

openai_send_request ==
    /\ pc = "adapter"
    /\ req.op = "openai"
    /\ req.out = None
    /\ req' = [req EXCEPT !.out = Some(OpenAIProvider_send_request(req))]
    /\ AdapterFrame

NextOpenAI == openai_send_request

SpecOpenAI == InitOpenAI /\ [][NextOpenAI]_vars


\* ---------------------------------------------------- Anthropic adapter
MaxBlocks == 2

\* Lines 53-56: every entry becomes a message whose role is its parity.
anthropic_messages(user_assistant) ==
    [k \in DOMAIN user_assistant |->
        [role |-> role_by_parity(k - 1), content |-> user_assistant[k]]]

\* Lines 70-89: in thinking mode a str content becomes one text block and a
\* list of blocks passes through.
prepare_for_thinking(messages) ==
    [k \in DOMAIN messages |->
        [role |-> messages[k].role,
         content |-> IF messages[k].content.t = "str"
                     THEN PyBlocks(<<[type |-> "text", text |-> messages[k].content.text]>>)
                     ELSE messages[k].content]]

\* Python's int(n * t / 10) for a factor of t tenths: the product truncated
\* towards zero.
int_of_product(n, t) ==
    IF n * t >= 0 THEN (n * t) \div 10 ELSE -((-(n * t)) \div 10)

should_use_thinking(c) ==
    TruthyStr(c.reasoning_effort) /\ lower(c.reasoning_effort[1]) \in {"medium", "high"}

\* request_params leaving the caller's temperature in thinking mode.
anthropic_request_params_keep_temperature(c) ==
    LET thinking == should_use_thinking(c)
        messages == IF thinking THEN prepare_for_thinking(anthropic_messages(c.user_assistant))
                    ELSE anthropic_messages(c.user_assistant)
        base == [model |-> c.model, messages |-> messages,
                 temperature |-> c.temperature,
                 max_tokens |-> c.max_tokens]
        s == IF c.system # None /\ c.system[1] # <<>>
             THEN Put(base, "system", c.system[1]) ELSE base
    IN IF thinking
       THEN Put(s, "thinking",
                [type |-> "enabled",
                 budget_tokens |-> IF lower(c.reasoning_effort[1]) = "medium"
                                   THEN int_of_product(c.max_tokens, 5)
                                   ELSE int_of_product(c.max_tokens, 9)])
       ELSE s

\* request_params as send_request builds them (tools left aside), lines
\* 58-107; temperatures are in tenths, so 1.0 is 10.
anthropic_request_params(c) ==
    LET thinking == should_use_thinking(c)
        messages == IF thinking THEN prepare_for_thinking(anthropic_messages(c.user_assistant))
                    ELSE anthropic_messages(c.user_assistant)
        base == [model |-> c.model, messages |-> messages,
                 temperature |-> IF thinking THEN 10 ELSE c.temperature,
                 max_tokens |-> c.max_tokens]
        s == IF c.system # None /\ c.system[1] # <<>>
             THEN Put(base, "system", c.system[1]) ELSE base
    IN IF thinking
       THEN Put(s, "thinking",
                [type |-> "enabled",
                 budget_tokens |-> IF lower(c.reasoning_effort[1]) = "medium"
                                   THEN int_of_product(c.max_tokens, 5)
                                   ELSE int_of_product(c.max_tokens, 9)])
       ELSE s

\* Content blocks of a final message.
Blocks ==
    { [type |-> "text", text |-> <<"t1">>],
      [type |-> "text", text |-> <<>>],
      [type |-> "tool_use", id |-> "id1", name |-> "tool_a", input |-> EmptyDict],
      [type |-> "tool_use", id |-> "id2", name |-> "tool_b", input |-> EmptyDict],
      [type |-> "thinking", thinking |-> <<"th">>, signature |-> "sig"],
      [type |-> "redacted_thinking", data |-> "xx"] }

Contents == UNION {[1..n -> Blocks] : n \in 0..MaxBlocks}

\* stop_reason of a final message; None when the message carries none.
StopReasons == {None, Some("end_turn"), Some("tool_use"), Some("max_tokens"), Some("refusal")}

is_tool_use(b) == b.type = "tool_use"
is_text(b) == b.type = "text"

ResponseFormatError(text) == [raised |-> "ResponseFormatError", text |-> text]

\* The classification testing the stop reason before the tool-use blocks.
anthropic_process_message_stop_first(m) ==
    LET tool_calls == SelectSeq(m.content, is_tool_use)
        text_blocks == SelectSeq(m.content, is_text)
        total_tokens == m.usage.input_tokens + m.usage.output_tokens
    IN IF TruthyStr(m.stop_reason) /\ m.stop_reason[1] \notin {"end_turn", "tool_use"}
       THEN ResponseFormatError(<<"The Anthropic API returned an unexpected stop reason: ",
                                  m.stop_reason[1], ".">>)
       ELSE IF m.stop_reason = Some("tool_use") \/ tool_calls # <<>>
       THEN IF tool_calls = <<>>
            THEN ResponseFormatError(<<"No tool calls found in response, but tool call was expected">>)
            ELSE [raised |-> "none", text |-> text_of_blocks(text_blocks),
                  total_tokens |-> total_tokens,
                  tool_info |-> Some([tool_calls |-> tool_calls,
                                      thinking_blocks |-> SelectSeq(m.content, LAMBDA b : b.type = "thinking")
                                                            \o SelectSeq(m.content, LAMBDA b : b.type = "redacted_thinking"),
                                      text_blocks |-> text_blocks,
                                      stop_reason |-> m.stop_reason])]
       ELSE IF text_of_blocks(text_blocks) = <<>>
       THEN ResponseFormatError(<<"No text content found in the Anthropic response.">>)
       ELSE [raised |-> "none", text |-> text_of_blocks(text_blocks),
             total_tokens |-> total_tokens, tool_info |-> None]

\* Lines 145-253: what send_request makes of the final message. Tool-use
\* blocks, or the stop reason 'tool_use', lead to the tool branch, which
\* raises when there is no tool-use block; otherwise a stop reason that is
\* set and is not 'end_turn' raises; otherwise the text blocks are joined
\* and returned, an empty text raising.
anthropic_process_message(m) ==
    LET tool_calls == SelectSeq(m.content, is_tool_use)
        text_blocks == SelectSeq(m.content, is_text)
        total_tokens == m.usage.input_tokens + m.usage.output_tokens
    IN IF m.stop_reason = Some("tool_use") \/ tool_calls # <<>>
       THEN IF tool_calls = <<>>
            THEN ResponseFormatError(<<"No tool calls found in response, but tool call was expected">>)
            ELSE [raised |-> "none", text |-> text_of_blocks(text_blocks),
                  total_tokens |-> total_tokens,
                  tool_info |-> Some([tool_calls |-> tool_calls,
                                      thinking_blocks |-> SelectSeq(m.content, LAMBDA b : b.type = "thinking")
                                                            \o SelectSeq(m.content, LAMBDA b : b.type = "redacted_thinking"),
                                      text_blocks |-> text_blocks,
                                      stop_reason |-> m.stop_reason])]
       ELSE IF TruthyStr(m.stop_reason) /\ m.stop_reason # Some("end_turn")
       THEN ResponseFormatError(<<"The Anthropic API returned an unexpected stop reason: ",
                                  m.stop_reason[1], ".">>)
       ELSE IF text_of_blocks(text_blocks) = <<>>
       THEN ResponseFormatError(<<"No text content found in the Anthropic response.">>)
       ELSE [raised |-> "none", text |-> text_of_blocks(text_blocks),
             total_tokens |-> total_tokens, tool_info |-> None]

\* AnthropicProvider.send_request: the request is built and streamed; a
\* failure of the stream is raised as ProviderError; the final message is
\* then processed.
AnthropicProvider_send_request(c) ==
    LET params == anthropic_request_params(c)
    IN IF c.stream = "raises" THEN ProviderError(<<params>>, OTHER_FAILURE)
       ELSE Put(anthropic_process_message(c.final_message), "calls", <<params>>)

\* Direct calls of AnthropicProvider.send_request.
AnthropicCalls ==
    [ op : {"anthropic"},
      system : {None, Some(<<"sys">>)},
      user_assistant : {<<PyText(<<"u1">>), PyText(<<"a1">>), PyText(<<"u2">>)>>},
      model : {<<"c", "l">>},
      temperature : {0, 7},
      max_tokens : {0, 1, 3, 1000},
      reasoning_effort : {None, Some(""), Some("low"), Some("medium"), Some("high"),
                          Some("HIGH"), Some("Medium")},
      stream : {"ok", "raises"},
      final_message : [content : Contents, stop_reason : StopReasons,
                       usage : {[input_tokens |-> 3, output_tokens |-> 4]}],
      out : {None} ]

InitAnthropic == AdapterInit(AnthropicCalls)

anthropic_send_request ==
    /\ pc = "adapter"
    /\ req.op = "anthropic"
    /\ req.out = None
    /\ req' = [req EXCEPT !.out = Some(AnthropicProvider_send_request(req))]
    /\ AdapterFrame

NextAnthropic == anthropic_send_request

SpecAnthropic == InitAnthropic /\ [][NextAnthropic]_vars


\* ------------------------------------ the follow-up request of the tool loop
MaxInitial == 4
MaxRounds == 2

\* Conversations of n texts, as start_new_conversation and
\* process_chat_request store them: one entry per -m message.
Conversation(n) == [k \in 1..n |-> PyText(<<IF k % 2 = 1 THEN "u" ELSE "a">>)]

\* tool_info as the OpenAI adapter returns it (lines 190-211) for a response
\* asking for the calls ids, with the accompanying text content.
openai_tool_info(ids, content) ==
    [tool_calls |-> [k \in DOMAIN ids |->
                        [type |-> "text", id |-> ids[k], name |-> "tool_a", input |-> EmptyDict]],
     thinking_blocks |-> <<>>,
     text_blocks |-> <<[type |-> "text", text |-> content]>>,
     stop_reason |-> Some("tool_calls")]

\* tool_info as the Anthropic adapter returns it for a final message with one
\* thinking block, a text block and the tool-use blocks ids.
anthropic_tool_info(ids, content) ==
    anthropic_process_message(
        [content |-> <<[type |-> "thinking", thinking |-> <<"th">>, signature |-> "sig"],
                       [type |-> "text", text |-> content]>>
                     \o [k \in DOMAIN ids |->
                            [type |-> "tool_use", id |-> ids[k], name |-> "tool_a",
                             input |-> EmptyDict]],
         stop_reason |-> Some("tool_use"),
         usage |-> [input_tokens |-> 3, output_tokens |-> 4]]).tool_info[1]

\* The follow-up message list of the tool loop: the prior messages, one
\* assistant turn rebuilt from the thinking, text and tool-call blocks of the
\* response, and one turn holding a result for every requested call.
followup_messages(prior, tool_info) ==
    prior
      \o <<PyBlocks(tool_info.thinking_blocks \o tool_info.text_blocks \o tool_info.tool_calls)>>
      \o <<PyBlocks([k \in DOMAIN tool_info.tool_calls |->
                        [type |-> "tool_result",
                         tool_use_id |-> tool_info.tool_calls[k].id,
                         content |-> <<"result">>]])>>

\* The message list after the given number of tool rounds.
RECURSIVE after_rounds(_, _, _)
after_rounds(prior, tool_info, rounds) ==
    IF rounds = 0 THEN prior
    ELSE followup_messages(after_rounds(prior, tool_info, rounds - 1), tool_info)

\* A tool loop on one conversation: the adapter, the calls each response
\* asks for, the rounds made, and the messages of the last follow-up request.
FollowupCalls ==
    [ op : {"followup"},
      provider : {"openai", "anthropic"},
      system : {None, Some(<<"sys">>)},
      user_assistant : {Conversation(n) : n \in 1..MaxInitial},
      ids : {[k \in 1..n |-> k] : n \in 1..MaxCalls},
      content : {<<>>, <<"t1">>},
      rounds : 1..MaxRounds,
      out : {None} ]

InitFollowup == AdapterInit(FollowupCalls)

\* The messages of the request an adapter sends for the follow-up list.
send_followup ==
    /\ pc = "adapter"
    /\ req.op = "followup"
    /\ req.out = None
    /\ LET tool_info == IF req.provider = "openai"
                        THEN openai_tool_info(req.ids, req.content)
                        ELSE anthropic_tool_info(req.ids, req.content)
           list == after_rounds(req.user_assistant, tool_info, req.rounds)
       IN req' = [req EXCEPT !.out =
                     Some([list |-> list,
                           messages |-> IF req.provider = "openai"
                                        THEN openai_messages(req.system, list)
                                        ELSE anthropic_messages(list)])]
    /\ AdapterFrame

NextFollowup == send_followup

SpecFollowup == InitFollowup /\ [][NextFollowup]_vars


\* =================================================================== claims
\* The history stored in a configuration file (empty when none is stored).
stored_history(f) ==
    IF "user_messages" \in DOMAIN f.data THEN f.data["user_messages"] ELSE <<>>

\* parse_arguments has returned a namespace.
Parsed == argv.kind = "ok" /\ pc \notin {"setup_signal_handlers", "parse_arguments"}

\* async_main is past update_chatbot_config.
PastOverrides == Did("update_chatbot_config")

\* C1: the tool loop of a chat turn is bounded by depth 10: no request is sent
\* at depth 10 or beyond, a response that requests a tool never ends the turn
\* with a returned answer (it leads to a further request one level deeper),
\* and at depth 10 the turn ends with ProviderError.
C1_ToolLoopCeiling ==
    /\ turn.depth <= 10
    /\ (turn.result = "returned" => turn.lastFinish # "tool_calls")
    /\ (turn.result # "none" /\ turn.depth = 10
            => turn.result = "raised" /\ turn.error = "ProviderError")

\* C2: Chatbot.chat never raises to its caller: whatever fails on the way,
\* the call ends by returning a string.
C2_ChatNeverRaises ==
    (pc = "turn_done" /\ turn.caller = "chat") => chat(turn).result = "returned"

\* C3: input validation raises ChatConfigError exactly when the system prompt
\* is not a string, or the message list is not a list, or one of its elements
\* is not a string, or max_tokens is not a positive integer, and returns
\* without error for every other input.
C3_Invalid(call) ==
    \/ call.system.t # "str"
    \/ call.user_assistant.t # "list"
    \/ \E i \in 1..Len(call.user_assistant.items) : call.user_assistant.items[i] # "str"
    \/ ~(call.max_tokens.t = "int" /\ call.max_tokens.v > 0)

C3_ValidationExact ==
    vout # "pending" =>
        /\ (C3_Invalid(vin) <=> vout = "ChatConfigError")
        /\ (~C3_Invalid(vin) <=> vout = "ok")

\* C4: after a chat run with -m that completes normally the persisted history
\* is, in conversation mode, the previous history followed by the supplied
\* messages and the response, and in one-shot mode empty.
C4_HistoryAfterRun ==
    (pc = "exited" /\ Did("chat_returned") /\ exc = "none") =>
        stored_history(file) =
            IF args.conversation
            THEN stored_history(file0) \o args.messages \o <<turn.content>>
            ELSE <<>>

C6_CleanupKeepsOutcome ==
    pc \in {"main", "exited"} => (mcp_client # "active" /\ exc = raised)

\* C7: main ends the process with exit code 0 after a successful run or a
\* user interrupt, 128+SIGTERM after a termination signal, and 1 when any
\* other exception reached the top level.
C7_ExitCodes ==
    pc = "exited" =>
        exit_code = CASE signalled = "SIGTERM" -> 128 + SIGTERM
                      [] signalled = "SIGINT" -> EX_OK
                      [] raised = "none" -> EX_OK
                      [] OTHER -> EXIT_ERROR

\* C8: started with no argument at all the program enters interactive mode:
\* it never performs a one-shot chat request, never shows the new-conversation
\* banner or the settings-updated display, a run that ends normally has gone
\* through interactive mode, and interactive mode starts from a cleared
\* persisted history.
C8_NoArgumentInteractive ==
    argv = NoFlags =>
        /\ ~Did("process_chat_request")
        /\ ~Did("print_new_conversation")
        /\ ~Did("print_settings_updated")
        /\ pc \notin {"start_new_conversation", "update_settings", "process_chat_request"}
        /\ (pc = "exited" /\ raised = "none" => Did("interactive_mode"))
        /\ (pc = "interactive_mode" /\ lines = 0
                => stored_history(file) = <<>> /\ file.data = config
                   /\ user_messages(config) = <<>>)

C8_Witness ==
    /\ argv = NoFlags
    /\ pc = "interactive_mode"
    /\ lines = 0
    /\ stored_history(file0) = <<"h1", "h2">>
    /\ stored_history(file) = <<>>

\* Steps of async_main that come after the configuration overrides.
LaterSteps ==
    {"print_model_list", "Chatbot.initialize_tools", "print_no_tools",
     "print_tool_list", "interactive_mode", "print_new_conversation",
     "print_settings_updated", "process_chat_request", "chat_returned", "chat_raised"}

\* Positions of async_main after initialize_tools.
AfterToolInit ==
    pc \in {"list_available_tools", "enter_interactive_mode", "interactive_mode",
            "start_new_conversation", "update_settings", "process_chat_request",
            "chat_with_provider", "handle_tool_call", "turn_done"}

\* C9: the configuration overrides are applied before every other step; with
\* a list-models flag the run stops before any tool initialization; the tool
\* client is initialized only if tool usage is enabled once the overrides are
\* in, and otherwise the tool list is empty (and no client exists) at every
\* later step.
C9_StartupOrder ==
    /\ (\E i \in 1..Len(trace) : trace[i] \in LaterSteps)
           => trace[1] = "update_chatbot_config"
    /\ (PastOverrides /\ args.use_tools # None) => use_tools(config) = args.use_tools[1]
    /\ (Parsed /\ (args.available_models \/ args.available_models_gpt))
           => (~Did("Chatbot.initialize_tools") /\ ~AfterToolInit
               /\ pc # "initialize_tools" /\ mcp_client = "none")
    /\ (Parsed /\ (args.available_models \/ args.available_models_gpt)
            /\ pc = "exited" /\ raised = "none") => Did("print_model_list")
    /\ Did("Chatbot.initialize_tools") => use_tools(config)
    /\ Did("print_tool_list") => use_tools(config)
    /\ mcp_client # "none" => Did("Chatbot.initialize_tools")
    /\ (AfterToolInit /\ ~use_tools(config)) => (tools = <<>> /\ mcp_client = "none")

C9_Witness ==
    /\ pc = "chat_with_provider"
    /\ ~use_tools(file0.data)
    /\ args.use_tools = Some(TRUE)
    /\ Did("Chatbot.initialize_tools")
    /\ mcp_client = "active"
    /\ tools # <<>>

\* C10: the tool flags parse tri-state and exclusive: --use-tools alone gives
\* true, --no-tools alone gives false, neither gives None, and a command line
\* with both flags is rejected instead of being parsed.
HasFlag(flags, f) == \E i \in 1..Len(flags) : flags[i] = f

C10_ToolFlagsExclusive ==
    Parsed =>
        LET uses == HasFlag(argv.toolFlags, "--use-tools")
            nos == HasFlag(argv.toolFlags, "--no-tools")
        IN /\ (uses /\ ~nos => args.use_tools = Some(TRUE))
           /\ (nos /\ ~uses => args.use_tools = Some(FALSE))
           /\ (~uses /\ ~nos => args.use_tools = None)
           /\ ~(uses /\ nos)

\* The fields of the configuration record the program knows.
DocumentedFields ==
    {"system_message", "model", "temperature", "reasoning_effort", "max_tokens",
     "provider", "user_messages", "use_tools"}

\* C11: on one Chatbot instance, after every setter call and every message
\* append the persisted file holds exactly the in-memory record: the same
\* keys with the same values.
C11_FileEqualsMemory ==
    chatbot =>
        /\ file.status = "ok"
        /\ DOMAIN file.data = DOMAIN config
        /\ \A k \in DOMAIN config : file.data[k] = config[k]

C11_Witness ==
    /\ chatbot
    /\ pc = "interactive_mode"
    /\ lines = 1
    /\ stored_history(file0) = <<"h1", "h2">>
    /\ user_messages(config) = <<"hello", "r1">>
    /\ file.data = config

C13_ConstructionSurvivesBadFile ==
    file0.status \in {"absent", "malformed"} =>
        /\ raised \notin {"FileNotFoundError", "JSONDecodeError"}
        /\ pc = "update_chatbot_config" =>
              [k \in DOMAIN config \ {"provider"} |-> config[k]] = EmptyDict

\* C14: a negative temperature, a negative token limit and a reasoning effort
\* outside low / medium / high are rejected by the setters: neither the
\* in-memory record nor the persisted file ever holds one.
C14_ValidRecord(cfg) ==
    /\ temperature(cfg) >= 0
    /\ max_tokens(cfg) >= 0
    /\ reasoning_effort(cfg) \in {"low", "medium", "high"}

C14_SettersReject ==
    /\ C14_ValidRecord(config)
    /\ file.status = "ok" => C14_ValidRecord(file.data)

\* C15: the provider of a created Chatbot is the explicit override if given,
\* else the persisted value, else "openai"; with any other name than openai or
\* anthropic the creation fails with ChatConfigError and no Chatbot (and no
\* adapter) exists.
C15_ProviderResolution ==
    "provider" \in DOMAIN config =>
        LET resolved == IF args.provider # None THEN args.provider[1]
                        ELSE IF "provider" \in DOMAIN load_config(file0)
                             THEN load_config(file0)["provider"]
                             ELSE "openai"
        IN /\ provider(config) = resolved
           /\ resolved \notin {"openai", "anthropic"} =>
                 (raised = "ChatConfigError" /\ ~chatbot)

\* C16: with two processes on one configuration path, a process that loads
\* the file never finds it empty or partly written, and once every started
\* write is complete the file is the whole record of the process that wrote
\* last.
C16_LastWriter == CHOOSE p \in Procs : \A q \in Procs : proc[q].wrote <= proc[p].wrote

C16_WholeRecordAlways ==
    pc = "shared" =>
        /\ \A p \in Procs : proc[p].seen \in {"none", "whole"}
        /\ ((\A p \in Procs : proc[p].pc # "writing")
             /\ (\E p \in Procs : proc[p].wrote > 0))
              => (file.status = "ok" /\ file.data = proc[C16_LastWriter].config)

\* C17: the interactive loop is left only on an exit command (exit, quit, q,
\* with or without a leading slash) or on end of input; an exception raised
\* while a line is handled leaves the fixed marker in the persisted history
\* and the loop reads the next line.
C17_ExitLines == {"/exit", "/Q", "exit", "quit", "EOF"}

C18_AllToolCallsAnswered ==
    (pc = "turn_done" /\ turn.calls # <<>> /\ turn.answer # "EOF") =>
        /\ turn.followup # None
        /\ Len(turn.followup[1]) = Len(turn.calls)
        /\ \A i \in 1..Len(turn.calls) : turn.followup[1][i].tool_call_id = turn.calls[i]

\* C19: a tool is invoked only after the console confirmation was asked and
\* answered y or yes (in any letter case), and each of these answers confirms.
C19_ConfirmedBeforeInvoked ==
    (pc = "turn_done" /\ turn.answer \notin {"none", "EOF"}) =>
        /\ turn.invoked # <<>> => turn.answer \in {"y", "Y", "yes"}
        /\ turn.answer \in {"y", "Y", "yes"} => turn.invoked # <<>>

\* The part of C19 that is about MCPClient.call_tool: a callback that returns
\* false gives the cancelled result and nothing is invoked, and with a
\* callback nothing is invoked unless it was asked and did not refuse.
CancelledInvokesNothing ==
    mcp_call.result # None =>
        /\ (mcp_call.confirm_callback = "false"
            /\ \E i \in DOMAIN mcp_call.active_servers :
                  mcp_call.tool_name \in mcp_call.active_servers[i])
              => (mcp_call.invoked = 0
                  /\ mcp_call.result[1].status = "cancelled"
                  /\ mcp_call.result[1].content = <<"Tool execution cancelled">>)
        /\ (mcp_call.confirm_callback # "None" /\ mcp_call.invoked # 0)
              => (mcp_call.asked /\ mcp_call.confirm_callback = "true")

\* C20: MCPClient.call_tool never raises and its result has status success,
\* error or cancelled; a tool that no active server advertises gives status
\* error with a message naming the tool; an exception of the confirmation
\* callback or of the invocation gives status error with content
\* "Error: <message>".
C20_CallToolNeverRaises ==
    mcp_call.result # None =>
        LET r == mcp_call.result[1]
            advertised == \E i \in DOMAIN mcp_call.active_servers :
                              mcp_call.tool_name \in mcp_call.active_servers[i]
        IN /\ r.raised = "none"
           /\ r.status \in {"success", "error", "cancelled"}
           /\ ~advertised =>
                 (r.status = "error" /\ mcp_call.invoked = 0
                  /\ \E i \in DOMAIN r.content : r.content[i] = mcp_call.tool_name)
           /\ (advertised /\ mcp_call.confirm_callback = "raises") =>
                 (r.status = "error" /\ r.content = <<"Error: ", "callback failed">>)
           /\ (advertised /\ mcp_call.confirm_callback \in {"None", "true"}
               /\ mcp_call.session = "raises") =>
                 (r.status = "error" /\ r.content = <<"Error: ", "invocation failed">>)

C20_Witness ==
    /\ mcp_call.result # None
    /\ mcp_call.confirm_callback = "true"
    /\ mcp_call.session = "raises"
    /\ mcp_call.invoked = 2
    /\ mcp_call.result[1].status = "error"

\* C21: after any sequence of connect_to_server and cleanup calls the tool
\* cache is the concatenation, duplicates kept, of the tool lists of the
\* active servers in order, and a connect that returns False, or that names
\* an already active server, changes neither the active-server map nor the
\* cache.
C21_CacheIsConcatenation ==
    /\ [](pc = "mcp" => get_tools(mcp) = tools_of_active(mcp.active_servers))
    /\ [][(/\ pc = "mcp"
           /\ mcp'.calls = mcp.calls + 1
           /\ mcp'.last.op = "connect"
           /\ \/ mcp'.last.returned = Some(FALSE)
              \/ is_active(mcp, mcp'.last.arg))
          => /\ mcp'.active_servers = mcp.active_servers
             /\ mcp'.tools_cache = mcp.tools_cache]_vars

\* Two active servers that both list tool_a, and a failed connect after them.
C21_Witness ==
    /\ pc = "mcp"
    /\ Len(mcp.active_servers) = 2
    /\ mcp.tools_cache = <<"tool_a", "tool_b", "tool_a">>
    /\ mcp.last.op = "connect"
    /\ mcp.last.returned = Some(FALSE)

\* A call_tool on the object as it stands finds no server for the tool.
NotFound(m, tool) ==
    LET r == MCPClient_call_tool(call_tool_on(m, tool, "None", "content")).result[1]
    IN /\ r.status = "error"
       /\ r.content = <<"Error: Tool '", tool, "' not found in any active server">>

\* C22: cleanup never raises; after it, whether the closing succeeded or
\* failed, the active-server map and the cache are empty and call_tool finds
\* no tool; a cleanup that follows a cleanup ends in the same state.
C22_CleanupIdempotent ==
    /\ []((pc = "mcp" /\ mcp.last.op = "cleanup")
            => /\ mcp.last.raised = "none"
               /\ mcp.active_servers = <<>>
               /\ mcp.tools_cache = <<>>
               /\ \A tool \in ToolNames \cup {"tool_x"} : NotFound(mcp, tool))
    /\ [][(/\ pc = "mcp"
           /\ mcp.last.op = "cleanup"
           /\ mcp'.calls = mcp.calls + 1
           /\ mcp'.last.op = "cleanup")
          => /\ mcp'.active_servers = mcp.active_servers
             /\ mcp'.tools_cache = mcp.tools_cache
             /\ mcp'.exit_stack = mcp.exit_stack
             /\ mcp'.last.raised = "none"]_vars

\* A cleanup whose closing failed, followed by a second cleanup.
C22_Witness ==
    /\ pc = "mcp"
    /\ mcp.last.op = "cleanup"
    /\ mcp.last.prev_op = "cleanup"
    /\ mcp.last.prev_arg = "raises"

\* The requests sent by a finished direct call of the OpenAI adapter.
OpenAIDone == pc = "adapter" /\ req.op = "openai" /\ req.out # None
OpenAISent == req.out[1].calls

\* C23 as stated: in every request of the GPT-family adapter, a model named
\* 'o' + digit has no temperature and has the lower-cased reasoning_effort;
\* a model whose name contains 'search' has no temperature; every other
\* model has the caller's temperature and no reasoning_effort; and
\* max_completion_tokens is max_tokens.
C23_RequestShape ==
    OpenAIDone =>
        \A k \in DOMAIN OpenAISent :
            LET p == OpenAISent[k]
            IN /\ p["max_completion_tokens"] = req.max_tokens
               /\ is_reasoning_model(req.model) =>
                     /\ "temperature" \notin DOMAIN p
                     /\ "reasoning_effort" \in DOMAIN p
                     /\ p["reasoning_effort"] = lower(req.reasoning_effort[1])
               /\ contains(req.model, search) => "temperature" \notin DOMAIN p
               /\ (~is_reasoning_model(req.model) /\ ~contains(req.model, search)) =>
                     /\ "temperature" \in DOMAIN p
                     /\ p["temperature"] = req.temperature
                     /\ "reasoning_effort" \notin DOMAIN p

\* C23 amended: as stated, except that for a model named 'o' + digit the
\* lower-cased reasoning_effort is present exactly when the caller passed a
\* non-empty one.
C23_RequestShapeWhenGiven ==
    OpenAIDone =>
        \A k \in DOMAIN OpenAISent :
            LET p == OpenAISent[k]
            IN /\ p["max_completion_tokens"] = req.max_tokens
               /\ is_reasoning_model(req.model) =>
                     /\ "temperature" \notin DOMAIN p
                     /\ "reasoning_effort" \in DOMAIN p <=> TruthyStr(req.reasoning_effort)
                     /\ "reasoning_effort" \in DOMAIN p =>
                           p["reasoning_effort"] = lower(req.reasoning_effort[1])
               /\ contains(req.model, search) => "temperature" \notin DOMAIN p
               /\ (~is_reasoning_model(req.model) /\ ~contains(req.model, search)) =>
                     /\ "temperature" \in DOMAIN p
                     /\ p["temperature"] = req.temperature
                     /\ "reasoning_effort" \notin DOMAIN p

\* A request for o1 with effort HIGH: no temperature, reasoning_effort high.
C23_Witness ==
    /\ OpenAIDone
    /\ req.model = <<"o", "1">>
    /\ req.reasoning_effort = Some("HIGH")
    /\ req.temperature = 7
    /\ "temperature" \notin DOMAIN OpenAISent[1]
    /\ OpenAISent[1]["reasoning_effort"] = "high"

\* C24: one send_request of the GPT-family adapter makes at most three
\* provider calls: the original request; then, only after a failure naming
\* the system role, the same request with the first message's role set to
\* 'developer'; then, only after a failure of that retry naming the
\* developer role, the request with the system text, a blank line and the
\* first user text merged into one leading user message (one message fewer).
\* A call that succeeds is the last one; any other failure, and a failure of
\* the third call, ends the request with ProviderError carrying its text.
C24_RetryLadder ==
    OpenAIDone =>
        LET sent == OpenAISent
            n == Len(sent)
            answer(k) == reply_at(req, k, sent[k])
            first == sent[1]["messages"]
        IN /\ n \in 1..3
           /\ sent[1] = openai_request_params(req, openai_messages(req.system, req.user_assistant))
           /\ \A k \in 1..n : answer(k) \notin Failures => k = n
           /\ n >= 2 =>
                 /\ answer(1) = SYSTEM_UNSUPPORTED
                 /\ sent[2]["messages"] =
                        <<[role |-> "developer", content |-> first[1]["content"]]>> \o Tail(first)
                 /\ Put(sent[2], "messages", first) = sent[1]
           /\ n = 3 =>
                 /\ answer(2) = DEVELOPER_UNSUPPORTED
                 /\ Len(sent[3]["messages"]) = Len(first) - 1
                 /\ sent[3]["messages"][1] =
                        [role |-> "user",
                         content |-> req.system[1] \o <<"\n\n">> \o req.user_assistant[1].text]
                 /\ SubSeq(sent[3]["messages"], 2, Len(first) - 1) = SubSeq(first, 3, Len(first))
                 /\ Put(sent[3], "messages", first) = sent[1]
           /\ (/\ answer(n) \in Failures
               /\ ~(n = 1 /\ answer(1) = SYSTEM_UNSUPPORTED)
               /\ ~(n = 2 /\ answer(2) = DEVELOPER_UNSUPPORTED))
                 => /\ req.out[1].raised = "ProviderError"
                    /\ req.out[1].text = <<"Request failed: ", answer(n)>>

\* Both retries were made and the merged request was answered.
C24_Witness ==
    /\ OpenAIDone
    /\ Len(OpenAISent) = 3
    /\ Len(req.user_assistant) = 3
    /\ req.out[1].raised = "none"
    /\ OpenAISent[3]["messages"][1]["content"] = <<"sys", "\n\n", "u1">>

\* A finished direct call of the Anthropic adapter and the request it sent.
AnthropicDone == pc = "adapter" /\ req.op = "anthropic" /\ req.out # None
AnthropicSent == req.out[1].calls[1]

\* C25: in the Claude-family adapter thinking is enabled exactly when the
\* reasoning effort is 'medium' or 'high' in any letter case; the request
\* then carries the budget floor(max_tokens * 0.5) for medium and
\* floor(max_tokens * 0.9) for high (900 for 1000, high) and temperature 1.0;
\* otherwise it carries no thinking field and the caller's temperature.
C25_ThinkingBudget ==
    AnthropicDone =>
        LET p == AnthropicSent
            effort == IF req.reasoning_effort = None THEN "none" ELSE req.reasoning_effort[1]
            medium == effort \in {"medium", "Medium"}
            high == effort \in {"high", "HIGH"}
        IN /\ "thinking" \in DOMAIN p <=> (medium \/ high)
           /\ medium => /\ p["thinking"] = [type |-> "enabled",
                                            budget_tokens |-> (req.max_tokens * 5) \div 10]
                        /\ p["temperature"] = 10
           /\ high => /\ p["thinking"] = [type |-> "enabled",
                                          budget_tokens |-> (req.max_tokens * 9) \div 10]
                      /\ p["temperature"] = 10
                      /\ req.max_tokens = 1000 => p["thinking"].budget_tokens = 900
           /\ ~(medium \/ high) => p["temperature"] = req.temperature

\* Effort HIGH, max_tokens 1000, temperature 0.7: budget 900, temperature 1.0.
C25_Witness ==
    /\ AnthropicDone
    /\ req.reasoning_effort = Some("HIGH")
    /\ req.max_tokens = 1000
    /\ req.temperature = 7
    /\ AnthropicSent["thinking"].budget_tokens = 900
    /\ AnthropicSent["temperature"] = 10

\* A final message was processed.
AnthropicAnswered == AnthropicDone /\ req.stream = "ok"
HasToolUse == \E k \in DOMAIN req.final_message.content : is_tool_use(req.final_message.content[k])
FinalText == text_of_blocks(SelectSeq(req.final_message.content, is_text))
RaisedFormat == req.out[1].raised = "ResponseFormatError"

\* Outcomes (a), (b) and (d) of the classification, (d) for the stop reasons
\* in ends.
ClassifiedABD(ends) ==
    /\ HasToolUse =>
          /\ req.out[1].raised = "none"
          /\ req.out[1].tool_info # None
          /\ req.out[1].tool_info[1].tool_calls # <<>>
          /\ req.out[1].tool_info[1].tool_calls = SelectSeq(req.final_message.content, is_tool_use)
    /\ (~HasToolUse /\ req.final_message.stop_reason = Some("tool_use")) => RaisedFormat
    /\ (~HasToolUse /\ req.final_message.stop_reason \in ends) =>
          IF FinalText = <<>> THEN RaisedFormat
          ELSE /\ req.out[1].raised = "none"
               /\ req.out[1].text = FinalText
               /\ req.out[1].tool_info = None

\* C26 as stated: (a) a final message with a tool-use block returns a
\* tool_info holding the tool-use blocks in order; (b) stop reason
\* 'tool_use' without such a block raises ResponseFormatError; (c) otherwise
\* any stop reason other than 'end_turn' raises ResponseFormatError; (d)
\* otherwise the joined text is returned without tool_info, an empty text
\* raising ResponseFormatError.
C26_Classification ==
    AnthropicAnswered =>
        /\ ClassifiedABD({Some("end_turn")})
        /\ (~HasToolUse /\ req.final_message.stop_reason \notin {Some("tool_use"), Some("end_turn")})
              => RaisedFormat

\* C26 amended: in (c) the stop reason is present and other than 'end_turn';
\* a final message without a stop reason is classified by (d).
C26_ClassificationWhenSet ==
    AnthropicAnswered =>
        /\ ClassifiedABD({Some("end_turn"), None})
        /\ (/\ ~HasToolUse
            /\ req.final_message.stop_reason \notin {Some("tool_use"), Some("end_turn"), None})
              => RaisedFormat

\* Two tool-use blocks under the stop reason max_tokens: outcome (a).
C26_Witness ==
    /\ AnthropicAnswered
    /\ req.final_message.stop_reason = Some("max_tokens")
    /\ Len(req.final_message.content) = 2
    /\ req.out[1].raised = "none"
    /\ Len(req.out[1].tool_info[1].tool_calls) = 2
    /\ req.out[1].tool_info[1].tool_calls[1].id = "id2"

\* C27: each time interactive mode shows its prompt the history has even
\* length, every chat message the user typed is at an even (0-based) index
\* and every model response or error marker at an odd one.
C27_HistoryParity ==
    pc = "interactive_mode" =>
        LET h == user_messages(config)
        IN /\ Len(h) % 2 = 0
           /\ \A k \in DOMAIN h :
                 /\ h[k] = "hello" => (k - 1) % 2 = 0
                 /\ h[k] \in {"r1", ERROR_MARKER} => (k - 1) % 2 = 1

FollowupDone == pc = "adapter" /\ req.op = "followup" /\ req.out # None

\* The roles under which the last two entries of the follow-up list are sent.
SentAsAssistantThenResults ==
    LET list == req.out[1].list
        ms == req.out[1].messages
        n == Len(list)
        results == Len(req.ids)
    IN IF req.provider = "anthropic"
       THEN /\ ms[n - 1].role = "assistant" /\ ms[n - 1].content = list[n - 1]
            /\ ms[n].role = "user" /\ ms[n].content = list[n]
       ELSE /\ Len(ms) > results
            /\ ms[Len(ms) - results]["role"] = "assistant"
            /\ "tool_calls" \in DOMAIN ms[Len(ms) - results]
            /\ Len(ms[Len(ms) - results]["tool_calls"]) = results
            /\ \A k \in 1..results : ms[Len(ms) - results + k]["role"] = "tool"

FollowupParityOddInitial ==
    (FollowupDone /\ Len(req.user_assistant) % 2 = 1) =>
        LET n == Len(req.out[1].list)
        IN /\ (n - 2) % 2 = 1
           /\ (n - 1) % 2 = 0
           /\ SentAsAssistantThenResults

\* The run ended without an exception or a signal, outside interactive mode.
EndedNormally ==
    /\ pc = "exited" /\ exc = "none" /\ signalled = "none"
    /\ Parsed /\ ~Did("interactive_mode")

ListingFlag == args.available_models \/ args.available_models_gpt \/ args.available_tools

\* Outside interactive mode: a request is sent only for supplied messages;
\* the run described by reset clears the history and sends nothing; a run
\* with configuration flags only shows the settings and sends nothing; a
\* one-shot request (the history as chat_with_provider reads it) carries
\* exactly the supplied messages.
DispatchOutsideInteractive(reset) ==
    /\ (turn.caller = "chat" /\ turn.requests > 0) => (Parsed /\ args.messages # None)
    /\ (EndedNormally /\ reset) =>
          /\ user_messages(config) = <<>>
          /\ stored_history(file) = <<>>
          /\ Did("print_new_conversation")
          /\ turn.requests = 0
    /\ (/\ EndedNormally /\ settings_flag(args) /\ args.messages = None
        /\ ~args.conversation /\ ~ListingFlag) =>
          /\ Did("print_settings_updated")
          /\ turn.requests = 0
    /\ (turn.caller = "chat" /\ ~args.conversation /\ pc = "chat_with_provider") =>
          user_messages(config) = args.messages

\* C29 as stated: outside interactive mode, for every combination of flags, a
\* chat request is sent only if -m messages were supplied; with -c and no
\* messages the history is reset to empty and no request is sent; with only
\* configuration flags the settings are displayed and no request is sent; a
\* one-shot request carries exactly the supplied messages, whatever the
\* persisted history was.
C29_RequestOnlyForMessages ==
    DispatchOutsideInteractive(args.conversation /\ args.messages = None)

\* C29 amended: the reset of the history by -c without messages is promised
\* only when no listing flag is on the command line.
C29_RequestOnlyForMessagesNoListing ==
    DispatchOutsideInteractive(args.conversation /\ args.messages = None /\ ~ListingFlag)

\* A one-shot request for m1 on top of a persisted history h1, h2.
C29_Witness ==
    /\ turn.caller = "chat"
    /\ turn.requests > 0
    /\ ~args.conversation
    /\ args.messages = <<"m1">>
    /\ stored_history(file0) = <<"h1", "h2">>

\* The record holds the value v under key.
Stored(key, v) == key \in DOMAIN config /\ config[key] = v

\* C30: once update_chatbot_config has run, every override flag present on
\* the command line has been passed to its setter, whatever its value, and a
\* run that carries such a flag never enters interactive mode.
C30_EveryOverrideApplied ==
    (Parsed /\ PastOverrides) =>
        /\ argv.provider # None => Stored("provider", argv.provider[1])
        /\ argv.system # None => Stored("system_message", argv.system[1])
        /\ argv.model # None => Stored("model", argv.model[1])
        /\ argv.reasoning_effort # None =>
              Stored("reasoning_effort", argv.reasoning_effort[1])
        /\ argv.max_tokens # None => Stored("max_tokens", argv.max_tokens[1])
        /\ argv.temperature # None => Stored("temperature", argv.temperature[1])
        /\ argv.toolFlags # <<>> =>
              Stored("use_tools", (argv.toolFlags[Len(argv.toolFlags)] = "--use-tools"))
        /\ (\/ argv.provider # None \/ argv.system # None \/ argv.model # None
            \/ argv.reasoning_effort # None \/ argv.max_tokens # None
            \/ argv.temperature # None \/ argv.toolFlags # <<>>) => ~Did("interactive_mode")

\* The same for the flags whose value Python counts as true, and for -t and
\* the tool flags whatever their value.
OverridesAppliedWhenTruthy ==
    (Parsed /\ PastOverrides /\ pc \notin {"interactive_mode", "chat_with_provider", "handle_tool_call", "turn_done", "finally", "main", "exited"}) =>
        /\ TruthyStr(argv.system) => Stored("system_message", argv.system[1])
        /\ TruthyInt(argv.max_tokens) => Stored("max_tokens", argv.max_tokens[1])
        /\ argv.temperature # None => Stored("temperature", argv.temperature[1])
        /\ calls_setter(args) => ~Did("interactive_mode")

====
